---- MODULE Spec2Model ----
(***************************************************************************)
(* Resumable batch migration engine of the verification bot:               *)
(* executeMigration / processSingleUser (services/migration.js), the run   *)
(* and item-log store (database/queries/users.js, 001_initial.sql), the    *)
(* credential lifecycle (services/oauth.js) and the retry executor         *)
(* (utils/rateLimiter.js).                                                 *)
(*                                                                         *)
(* The RateLimiter and the timing of the joins of one pass are modelled    *)
(* on their own, with a clock in milliseconds (SpecLimiter, SpecJoinRate), *)
(* and so is retryWithBackoff as a function of its options (SpecRetry).    *)
(*                                                                         *)
(* One step of the model is the code between two await points of one       *)
(* invocation (Node runs it without interleaving), together with the       *)
(* database statement or HTTP exchange the await waits for.                *)
(***************************************************************************)
EXTENDS Integers, Sequences, FiniteSets, Bags, TLC

\* ------------------------------------------------------------------ bounds
NumUsers == 2
MaxInvocations == 2
MaxRetryAttempts == 2
MaxFaults == 1
MaxOverlap == 2
MaxAcquires == 3
MaxElapsed == 9
MaxAttemptsGiven == 4
RandomSteps == 4

\* --------------------------------------------------------------- constants
NULL == 0

ADDED == "added"
ALREADY_IN == "already_in_server"
FAILED == "failed"
SKIPPED_MANUAL == "skipped_manual"
TOKEN_REVOKED == "token_revoked"
REFRESH_FAILED == "refresh_failed"

TOKEN_REFRESH_BUFFER_SECONDS == 3600
DefaultProgressInterval == 25

\* Date.now() when the program is looked at: far beyond lastRequestTime = 0
StartTime == 1000

\* expires_in of the provider's token answer, in seconds
ExpiresIn == 604800

\* values of token_expires_at, in ms: before now, at the end of the refresh
\* buffer to the millisecond, and one millisecond beyond it
ExpiresPast == StartTime - 1
ExpiresSoon == StartTime + TOKEN_REFRESH_BUFFER_SECONDS * 1000
ExpiresLate == ExpiresSoon + 1

\* rows of verified_users are keyed by discord_id; ids are numbered in
\* verified_at order, the order getAllVerifiedUsers returns them in
Users == 1..NumUsers
Invocations == 1..MaxInvocations

\* guild ids the owner may pass to ?pull, and the ones in client.guilds.cache
Guilds == {"g1", "g2", "gX"}
KnownGuilds == {"g1", "g2"}

VARIABLES
  verified_users,      \* table verified_users: discord_id -> row
  migration_runs,      \* table migration_runs: sequence, id = index
  migration_user_log,  \* table migration_user_log: bag of rows (no query orders them)
  grant,               \* provider side: the refresh credential it honours per user (NULL: none)
  retryAttempts,       \* config.migration.retryAttempts
  progressInterval,    \* config.migration.progressInterval
  inv,                 \* the executeMigration invocations: locals and position
  crashes,             \* number of process terminations so far
  runHist,             \* per run: what its creator saw, its candidates, finalising writes
  envFault,            \* users for which the provider itself refused or failed
  member,              \* provider side: <<guild, user>> memberships
  faults,              \* number of failures injected so far (store, network, provider)
  overlapped,          \* an invocation has started while another was in flight
  raced,               \* the guilds targeted by two invocations in flight at once
  clock,               \* Date.now(), in milliseconds
  rateLimiter,         \* one RateLimiter object and the position of its _process loop
  trace,               \* the acquire() calls, releases and join calls so far, with times
  pass,                \* the loop of one invocation, as far as its timing goes
  retry,               \* one call of retryWithBackoff: options, position, history
  web                  \* the web side: table oauth_states, the callbacks and /verify commands

\* the timed view (clock, limiter, one pass) is explored on its own: the steps
\* of the engine leave it alone and its steps leave the engine alone
timed == <<clock, rateLimiter, trace, pass, retry, web>>

config == <<retryAttempts, progressInterval>>

engine == <<verified_users, migration_runs, migration_user_log, grant,
            config, inv, crashes, runHist, envFault, member, faults,
            overlapped, raced>>

vars == <<engine, timed>>

store == <<verified_users, migration_runs, migration_user_log>>

\* ------------------------------------------------------------ verified_users
OAuthRow(exp) ==
  [access_token |-> 1, refresh_token |-> 1, token_expires_at |-> exp,
   manually_verified |-> FALSE, token_revoked |-> FALSE]

ManualRow ==
  [access_token |-> NULL, refresh_token |-> NULL, token_expires_at |-> NULL,
   manually_verified |-> TRUE, token_revoked |-> FALSE]

ManualWithTokensRow ==
  [access_token |-> 1, refresh_token |-> 1, token_expires_at |-> ExpiresLate,
   manually_verified |-> TRUE, token_revoked |-> FALSE]

RevokedRow ==
  [access_token |-> NULL, refresh_token |-> NULL, token_expires_at |-> ExpiresSoon,
   manually_verified |-> FALSE, token_revoked |-> TRUE]

\* manually verified, then refused at a refresh: markTokenRevoked has
\* cleared the credentials and set the flag
ManualRevokedRow ==
  [access_token |-> NULL, refresh_token |-> NULL, token_expires_at |-> ExpiresSoon,
   manually_verified |-> TRUE, token_revoked |-> TRUE]

InitRows == {OAuthRow(ExpiresLate), OAuthRow(ExpiresSoon), ManualRow, ManualWithTokensRow, RevokedRow}

getAllVerifiedUsers(vu) ==
  SelectSeq([u \in DOMAIN vu |-> u], LAMBDA u : ~vu[u].token_revoked)

\* an update that leaves the refresh credential
updateTokens_AccessOnly(vu, u, access, refresh, tokenExpiresAt) ==
  [vu EXCEPT ![u].access_token = access,
             ![u].token_expires_at = tokenExpiresAt]

\* UPDATE verified_users SET access_token, refresh_token, token_expires_at
updateTokens(vu, u, access, refresh, tokenExpiresAt) ==
  [vu EXCEPT ![u].access_token = access,
             ![u].refresh_token = refresh,
             ![u].token_expires_at = tokenExpiresAt]

\* an update that clears the credentials and leaves the flag
markTokenRevoked_KeepsFlag(vu, u) ==
  [vu EXCEPT ![u].access_token = NULL,
             ![u].refresh_token = NULL]

\* UPDATE verified_users SET token_revoked = TRUE, revoked_at = NOW(),
\* access_token = NULL, refresh_token = NULL
markTokenRevoked(vu, u) ==
  [vu EXCEPT ![u].token_revoked = TRUE,
             ![u].access_token = NULL,
             ![u].refresh_token = NULL]

\* ------------------------------------------------------------ migration_runs
ZeroCounts ==
  [added |-> 0, alreadyIn |-> 0, failed |-> 0, skippedManual |-> 0, tokenRevoked |-> 0]

\* a row as INSERT INTO migration_runs (target_guild_id, initiated_by,
\* total_users) leaves it: the other columns take their defaults
NewRunRow(target, total) ==
  [target_guild_id |-> target, total_users |-> total, status |-> "running",
   added_count |-> 0, already_in_count |-> 0, failed_count |-> 0,
   skipped_manual |-> 0, token_revoked_count |-> 0]

\* a create that forgets the total
createMigrationRun_NoTotal(runs, target, total) ==
  [runs |-> Append(runs, NewRunRow(target, 0)), id |-> Len(runs) + 1]

\* a create that reuses the row of the guild (ON CONFLICT ... DO UPDATE)
createMigrationRun_Upsert(runs, target, total) ==
  LET R == {r \in DOMAIN runs : runs[r].target_guild_id = target}
  IN IF R = {}
       THEN [runs |-> Append(runs, NewRunRow(target, total)), id |-> Len(runs) + 1]
       ELSE LET r == CHOOSE x \in R : \A y \in R : y <= x
            IN [runs |-> [runs EXCEPT ![r] = NewRunRow(target, total)], id |-> r]

\* the table after the insert, and the id of the returned row
createMigrationRun(runs, target, total) ==
  [runs |-> Append(runs, NewRunRow(target, total)), id |-> Len(runs) + 1]

completeMigrationRun(runs, runId, counts) ==
  [runs EXCEPT ![runId] =
     [@ EXCEPT !.status = "completed",
               !.added_count = counts.added,
               !.already_in_count = counts.alreadyIn,
               !.failed_count = counts.failed,
               !.skipped_manual = counts.skippedManual,
               !.token_revoked_count = counts.tokenRevoked]]

SetMax(S) == CHOOSE x \in S : \A y \in S : y <= x

\* a lookup that never finds a run
getIncompleteMigrationRun_None(runs, target) == NULL

getIncompleteMigrationRun(runs, target) ==
  LET R == {r \in DOMAIN runs : runs[r].target_guild_id = target
                                /\ runs[r].status = "running"}
  IN IF R = {} THEN NULL ELSE SetMax(R)

\* -------------------------------------------------------- migration_user_log
LogRow(runId, u, status) ==
  [migration_run_id |-> runId, discord_id |-> u, status |-> status]

logMigrationUser(log, runId, u, status) ==
  log (+) SetToBag({LogRow(runId, u, status)})

RowsOf(log, runId, u) ==
  {e \in BagToSet(log) : e.migration_run_id = runId /\ e.discord_id = u}

\* number of rows of the run for the user
RowCount(log, runId, u) ==
  BagCardinality([e \in RowsOf(log, runId, u) |-> log[e]])

\* new Map(rows.map(r => [r.discord_id, r.status])): one status per logged
\* user; of several rows of one user the last returned wins, and the query
\* has no ORDER BY
getProcessedUsersForRun(log, runId) ==
  LET S == {e.discord_id : e \in {x \in BagToSet(log) : x.migration_run_id = runId}}
  IN {m \in [S -> {ADDED, ALREADY_IN, FAILED, SKIPPED_MANUAL, TOKEN_REVOKED, REFRESH_FAILED}] :
        \A u \in S : LogRow(runId, u, m[u]) \in BagToSet(log)}

\* ------------------------------------------------------------------ retry
\* retryWithBackoff: the loop body is entered only while attempt <= maxAttempts
RetryEnters(maxAttempts) == 1 <= maxAttempts

\* a catch arm that gives up one attempt early
RetryDecision_StopsEarly(attempt, maxAttempts, retryable) ==
  IF attempt + 1 >= maxAttempts \/ ~retryable THEN "throw" ELSE "retry"

\* a catch arm that does not ask retryOn
RetryDecision_IgnoresRetryOn(attempt, maxAttempts, retryable) ==
  IF attempt = maxAttempts THEN "throw" ELSE "retry"

\* what the catch arm of retryWithBackoff does with an error of attempt n
RetryDecision(attempt, maxAttempts, retryable) ==
  IF attempt = maxAttempts \/ ~retryable THEN "throw" ELSE "retry"

\* retryOn of the join call site
IsRateLimitSignal(err) == err = "RATE_LIMITED"

\* the answers of PUT /guilds/{id}/members/{id}; "neterr" is request() rejecting
JoinAnswers == {"201", "204", "429", "403", "neterr"}

\* a classification that takes 204 for an addition
addUserToGuild_AddedOn204(answer) ==
  CASE answer \in {"201", "204"} -> ADDED
    [] answer = "429" -> "rate_limited"
    [] OTHER -> FAILED

\* 201: added; 204: already_in_server; 429: rate_limited; anything else: failed
addUserToGuild(answer) ==
  CASE answer = "201" -> ADDED
    [] answer = "204" -> ALREADY_IN
    [] answer = "429" -> "rate_limited"
    [] OTHER -> FAILED

\* ----------------------------------------------------------- executeMigration
\* a lookup that finds every guild
TargetGuildFound_Any(g) == TRUE

\* client.guilds.cache.get(targetGuildId) is defined
TargetGuildFound(g) == g \in KnownGuilds

\* a pass that does not filter
UsersToProcess_NoFilter(all, already) == all

UsersToProcess(all, already) ==
  IF Cardinality(DOMAIN already) > 0
    THEN SelectSeq(all, LAMBDA u : u \notin DOMAIN already)
    ELSE all

\* the switch over the result of processSingleUser
Tally(counts, result) ==
  CASE result = ADDED -> [counts EXCEPT !.added = @ + 1]
    [] result = ALREADY_IN -> [counts EXCEPT !.alreadyIn = @ + 1]
    [] result = SKIPPED_MANUAL -> [counts EXCEPT !.skippedManual = @ + 1]
    [] result \in {TOKEN_REVOKED, REFRESH_FAILED} -> [counts EXCEPT !.tokenRevoked = @ + 1]
    [] OTHER -> [counts EXCEPT !.failed = @ + 1]

NumWith(already, S) == Cardinality({u \in DOMAIN already : already[u] \in S})

\* a finalize that forgets the resumed part
MergeCounts_NoPrior(counts, already) == counts

\* "add back counts from resumed run"
MergeCounts(counts, already) ==
  [added |-> counts.added + NumWith(already, {ADDED}),
   alreadyIn |-> counts.alreadyIn + NumWith(already, {ALREADY_IN}),
   skippedManual |-> counts.skippedManual + NumWith(already, {SKIPPED_MANUAL}),
   tokenRevoked |-> counts.tokenRevoked + NumWith(already, {TOKEN_REVOKED, REFRESH_FAILED}),
   failed |-> counts.failed
              + NumWith(already, {FAILED} \cup
                  ({already[u] : u \in DOMAIN already}
                     \ {ADDED, ALREADY_IN, SKIPPED_MANUAL, TOKEN_REVOKED, REFRESH_FAILED}))]

\* a classification that does not look at the revoked flag
PreClassify_NoRevokedCheck(row) ==
  IF row.manually_verified /\ row.access_token = NULL THEN SKIPPED_MANUAL
  ELSE "oauth"

\* a classification that looks at the revoked flag first
PreClassify_RevokedFirst(row) ==
  IF row.token_revoked THEN TOKEN_REVOKED
  ELSE IF row.manually_verified /\ row.access_token = NULL THEN SKIPPED_MANUAL
  ELSE "oauth"

\* first checks of processSingleUser on the row the invocation fetched
PreClassify(row) ==
  IF row.manually_verified /\ row.access_token = NULL THEN SKIPPED_MANUAL
  ELSE IF row.token_revoked THEN TOKEN_REVOKED
  ELSE "oauth"

\* a test that takes a credential for fresh until it has expired
NeedsRefresh_NoBuffer(row) == ~(row.token_expires_at - clock > 0)

\* ensureFreshToken: unless expiresAt - now > bufferMs, refresh
NeedsRefresh(row) ==
  ~(row.token_expires_at - clock > TOKEN_REFRESH_BUFFER_SECONDS * 1000)

IdleInv ==
  [pc |-> "idle", target |-> "none", epoch |-> 0, site |-> "none",
   existing |-> NULL, run |-> NULL, already |-> << >>,
   all |-> << >>, snap |-> << >>, todo |-> << >>,
   processed |-> 0, counts |-> ZeroCounts,
   token |-> NULL, attempt |-> 0, status |-> "none",
   nCreated |-> 0, threw |-> {},
   nRefresh |-> 0, progress |-> {}, editFailed |-> {}]

Live(r) == r.pc \notin {"idle", "done", "thrown", "killed"}

CurUser(r) == r.todo[r.processed]

\* executeMigration is left (returned, threw, or the process died): its
\* locals are gone; what it resolved is kept for the record
Leave(r, pc, site) ==
  [IdleInv EXCEPT !.pc = pc, !.site = site, !.target = r.target, !.epoch = r.epoch,
                  !.existing = r.existing, !.run = r.run, !.already = r.already,
                  !.nCreated = r.nCreated, !.threw = r.threw,
                  !.editFailed = r.editFailed]

\* rateLimiter.acquire() resolved: retryWithBackoff is entered; with no
\* attempt to make it throws lastError, which is still undefined
EnterJoin(r, maxAttempts) ==
  IF RetryEnters(maxAttempts)
    THEN [r EXCEPT !.attempt = 1, !.pc = "join"]
    ELSE [r EXCEPT !.pc = "caught", !.status = "undefined"]

\* processed++ and processSingleUser up to its first store or network call
StartItem(r0, maxAttempts) ==
  LET r == [r0 EXCEPT !.processed = @ + 1, !.status = "none", !.token = NULL,
                      !.attempt = 0, !.nRefresh = 0]
      row == r.snap[CurUser(r)]
      c == PreClassify(row)
  IN IF c # "oauth" THEN [r EXCEPT !.status = c, !.pc = "logItem"]
     ELSE IF NeedsRefresh(row) THEN [r EXCEPT !.pc = "refresh"]
     ELSE EnterJoin([r EXCEPT !.token = row.access_token], maxAttempts)

\* top of the for loop: the next user, or past the loop
Advance(r, maxAttempts) ==
  IF r.processed = Len(r.todo)
    THEN [r EXCEPT !.status = "none", !.token = NULL, !.attempt = 0,
                   !.nRefresh = 0, !.pc = "finalize"]
    ELSE StartItem(r, maxAttempts)

\* processed % progressInterval === 0 || processed === usersToProcess.length
\* (a remainder by 0 is NaN, which equals nothing)
ProgressDue(processed, interval, n) ==
  (interval # 0 /\ processed % interval = 0) \/ processed = n

\* past the try/catch of the loop body: the progress update when it is due
AfterItem(r, maxAttempts) ==
  IF ProgressDue(r.processed, progressInterval, Len(r.todo))
    THEN [r EXCEPT !.pc = "progress"]
    ELSE Advance(r, maxAttempts)

\* an update whose failed delivery is not caught
AfterProgress_Throws(r0, ok, maxAttempts) ==
  LET r == [r0 EXCEPT !.progress = @ \cup {r0.processed},
                      !.editFailed = IF ok THEN @ ELSE @ \cup {r0.processed}]
  IN IF ok THEN Advance(r, maxAttempts) ELSE Leave(r, "thrown", "engine")

\* sendProgressUpdate: the embed is built and statusMessage.edit awaited
\* inside a try whose catch only warns; progress and editFailed keep, for the
\* record, after which principals an update was issued and which edits failed
AfterProgress(r0, ok, maxAttempts) ==
  LET r == [r0 EXCEPT !.progress = @ \cup {r0.processed},
                      !.editFailed = IF ok THEN @ ELSE @ \cup {r0.processed}]
  IN Advance(r, maxAttempts)

\* processSingleUser returned result: the switch, then the loop goes on
Returned(r, result, maxAttempts) ==
  AfterItem([r EXCEPT !.counts = Tally(r.counts, result)], maxAttempts)

\* the catch arm of the for loop; err is the thrown value, and reading
\* err.message of undefined throws out of the arm; threw keeps, for the
\* record, the users whose item body threw and what it threw
Caught(r0, err, maxAttempts) ==
  LET r == [r0 EXCEPT !.threw = @ \cup {<<CurUser(r0), err>>}]
  IN IF err = "undefined"
       THEN Leave(r, "thrown", "item")
       ELSE AfterItem([r EXCEPT !.counts = [@ EXCEPT !.failed = @ + 1]], maxAttempts)

\* a limiter as its constructor leaves it; due is the time the pending
\* sleep of _process is over (NULL: _process is not waiting)
NewRateLimiter(minInterval) ==
  [minInterval |-> minInterval, lastRequestTime |-> 0, queue |-> << >>,
   processing |-> FALSE, due |-> NULL]

NoTrace == [acquires |-> << >>, releases |-> << >>, joins |-> << >>]

IdlePass == [pc |-> "off", rps |-> 0, k |-> 0, attempt |-> 0, inFlight |-> 0]

\* retryWithBackoff not called; calls, errors and waits keep, for the record,
\* the attempt numbers fn was called with, what it threw and the sleeps
IdleRetry ==
  [pc |-> "off", maxAttempts |-> 0, baseDelay |-> 0, maxDelay |-> 0, factor |-> 0,
   retryOn |-> {}, attempt |-> 0, calls |-> << >>, errors |-> << >>,
   waits |-> << >>, result |-> "none"]

\* /verify not running: no target, nothing read, no reply yet
IdleVerify == [pc |-> "off", userId |-> NULL, existingUser |-> << >>, reply |-> "none"]

\* table oauth_states empty, no state issued, no callback received; created
\* keeps, for the record, when each state was issued
IdleWeb ==
  [oauth_states |-> << >>, issued |-> 0, created |-> << >>, callbacks |-> << >>,
   exchanging |-> {}, verify |-> IdleVerify, ticks |-> 0]

TimedIdle ==
  /\ clock = StartTime
  /\ rateLimiter = NewRateLimiter(0)
  /\ trace = NoTrace
  /\ pass = IdlePass
  /\ retry = IdleRetry
  /\ web = IdleWeb

Init ==
  /\ TimedIdle
  /\ verified_users \in [Users -> InitRows]
  /\ grant \in [Users -> {NULL, 1}]
  /\ \A u \in Users :
       IF verified_users[u].refresh_token # NULL /\ NeedsRefresh(verified_users[u])
         THEN TRUE ELSE grant[u] = verified_users[u].refresh_token
  /\ envFault = {u \in Users : grant[u] # verified_users[u].refresh_token}
  /\ migration_runs = << >>
  /\ migration_user_log = EmptyBag
  /\ runHist = << >>
  /\ retryAttempts \in 0..MaxRetryAttempts
  /\ progressInterval = DefaultProgressInterval
  /\ inv = [i \in Invocations |-> IdleInv]
  /\ crashes = 0
  /\ member = {}
  /\ faults = 0
  /\ overlapped = FALSE
  /\ raced = {}

\* ------------------------------------------------------------------ steps
\* Exploration is bounded in two ways that do not depend on the code: at most
\* MaxFaults injected failures per behaviour, and failures and process kills
\* are explored for invocations that run one after another, overlapping
\* invocations (a group of at most MaxOverlap, starting on an untouched
\* store) for a store, network and provider that answer.
FaultAllowed == faults < MaxFaults /\ ~overlapped

InFlight == {j \in Invocations : Live(inv[j])}

\* messageCreate hands ?pull <g> to executeMigration, which looks the guild up
\* in the client's cache and throws before any query when it is not there
Invoke(i, g) ==
  /\ inv[i].pc = "idle"
  \* invocations are numbered in the order they start, guilds in the order
  \* they are first targeted
  /\ \A j \in Invocations : j < i => inv[j].pc # "idle"
  /\ g = "g2" => \E j \in Invocations : inv[j].target = "g1"
  /\ IF InFlight = {}
       THEN ~overlapped
       ELSE /\ Cardinality(InFlight) < MaxOverlap
            /\ faults = 0 /\ crashes = 0 /\ retryAttempts = MaxRetryAttempts
            /\ \A j \in Invocations : inv[j].pc = "idle" \/ Live(inv[j])
  /\ overlapped' = (overlapped \/ (InFlight # {} /\ TargetGuildFound(g)))
  /\ raced' = IF \E j \in InFlight : inv[j].target = g THEN raced \cup {g} ELSE raced
  /\ LET r == [inv[i] EXCEPT !.target = g, !.epoch = crashes]
     IN inv' = [inv EXCEPT ![i] =
          IF TargetGuildFound(g)
            THEN [r EXCEPT !.pc = "lookup"]
            ELSE Leave(r, "thrown", "precondition")]
  /\ UNCHANGED <<timed, store, grant, config, crashes, runHist, envFault, member, faults>>

\* const existingRun = await getIncompleteMigrationRun(targetGuildId)
Lookup(i) ==
  /\ inv[i].pc = "lookup"
  /\ LET e == getIncompleteMigrationRun(migration_runs, inv[i].target)
     IN inv' = [inv EXCEPT ![i] =
          [@ EXCEPT !.existing = e,
                    !.pc = IF e # NULL THEN "getProcessed" ELSE "fetch"]]
  /\ UNCHANGED <<timed, store, grant, config, crashes, runHist, envFault, member, faults, overlapped, raced>>

\* alreadyProcessed = await getProcessedUsersForRun(existingRun.id)
GetProcessed(i) ==
  /\ inv[i].pc = "getProcessed"
  /\ \E m \in getProcessedUsersForRun(migration_user_log, inv[i].existing) :
       inv' = [inv EXCEPT ![i] =
         [@ EXCEPT !.already = m, !.run = inv[i].existing, !.pc = "fetch"]]
  /\ UNCHANGED <<timed, store, grant, config, crashes, runHist, envFault, member, faults, overlapped, raced>>

\* allUsers = await getAllVerifiedUsers(); empty list throws; filter
Fetch(i) ==
  /\ inv[i].pc = "fetch"
  /\ LET all == getAllVerifiedUsers(verified_users)
         S == {all[k] : k \in DOMAIN all}
     IN inv' = [inv EXCEPT ![i] =
          IF Len(all) = 0
            THEN Leave(inv[i], "thrown", "nousers")
            ELSE [@ EXCEPT !.all = all,
                           !.snap = [u \in S |-> verified_users[u]],
                           !.todo = UsersToProcess(all, inv[i].already),
                           !.pc = IF inv[i].run = NULL THEN "create" ELSE "audit"]]
  /\ UNCHANGED <<timed, store, grant, config, crashes, runHist, envFault, member, faults, overlapped, raced>>

\* migrationRun = await createMigrationRun(target, initiatedBy, allUsers.length)
Create(i) ==
  /\ inv[i].pc = "create"
  /\ LET res == createMigrationRun(migration_runs, inv[i].target, Len(inv[i].all))
         h == [cands |-> {inv[i].all[k] : k \in DOMAIN inv[i].all}, finalized |-> 0]
     IN /\ migration_runs' = res.runs
        /\ runHist' = IF res.id \in DOMAIN runHist
                        THEN [runHist EXCEPT ![res.id] = h]
                        ELSE Append(runHist, h)
        /\ inv' = [inv EXCEPT ![i] =
             [@ EXCEPT !.run = res.id, !.nCreated = @ + 1, !.pc = "audit"]]
  /\ UNCHANGED <<timed, verified_users, migration_user_log, grant, config, crashes,
                 envFault, member, faults, overlapped, raced>>

\* writeAuditLog('migration_start') and the start embed; either call may reject,
\* which leaves executeMigration through no handler of its own; then the loop
Audit(i, ok) ==
  /\ inv[i].pc = "audit"
  /\ ok \/ FaultAllowed
  /\ faults' = IF ok THEN faults ELSE faults + 1
  /\ inv' = [inv EXCEPT ![i] =
       IF ok THEN Advance(@, retryAttempts) ELSE Leave(@, "thrown", "engine")]
  /\ UNCHANGED <<timed, store, grant, config, crashes, runHist, envFault, member, overlapped, raced>>

\* the refresh exchange at the provider, as refreshToken sees it
RefreshAnswers == {"ok", "invalid_grant", "invalid_grant_described", "transient"}

\* refreshToken throws `Token refresh failed: ${error_description || error}`
RefreshErrorMessage(answer) ==
  CASE answer = "invalid_grant" -> "invalid_grant"
    [] answer = "invalid_grant_described" -> "Invalid refresh_token in request"
    [] OTHER -> "server_error"

\* a test that takes every failure for a revocation
MentionsRevocation_Any(msg) == TRUE

\* err.message.includes('invalid_grant') || err.message.includes('revoked')
MentionsRevocation(msg) == msg \in {"invalid_grant", "revoked"}

\* a failure handling that goes on to the join
RefreshFailure_Joins(r, answer) ==
  [r EXCEPT !.attempt = 1, !.pc = "join"]

\* what ensureFreshToken does with what refreshToken threw
RefreshFailure(r, answer) ==
  IF MentionsRevocation(RefreshErrorMessage(answer))
    THEN [r EXCEPT !.pc = "markRevoked"]
    ELSE [r EXCEPT !.status = REFRESH_FAILED, !.pc = "logItem"]

\* newTokens = await refreshToken(user.refresh_token), on the fetched row
Refresh(i, answer) ==
  /\ inv[i].pc = "refresh"
  /\ LET u == CurUser(inv[i])
         tok == inv[i].snap[u].refresh_token
         current == tok # NULL /\ tok = grant[u]
     IN CASE answer = "ok" ->
               \* a provider that rotates may still honour the credential it replaced
               /\ tok # NULL /\ grant[u] # NULL
               /\ grant' = [grant EXCEPT ![u] = @ + 1]
               /\ UNCHANGED <<envFault, faults>>
               /\ inv' = [inv EXCEPT ![i] = [@ EXCEPT !.token = grant[u] + 1,
                                                      !.nRefresh = @ + 1,
                                                      !.pc = "updateTokens"]]
          [] answer \in {"invalid_grant", "invalid_grant_described"} ->
               /\ ~current
               /\ UNCHANGED <<grant, envFault, faults>>
               /\ inv' = [inv EXCEPT ![i] =
                    RefreshFailure([@ EXCEPT !.nRefresh = @ + 1], answer)]
          [] OTHER ->
               /\ FaultAllowed
               /\ faults' = faults + 1
               /\ grant' = grant
               /\ envFault' = envFault \cup {u}
               /\ inv' = [inv EXCEPT ![i] =
                    RefreshFailure([@ EXCEPT !.nRefresh = @ + 1], answer)]
  /\ UNCHANGED <<timed, store, config, crashes, runHist, member, overlapped, raced>>

\* await updateTokens(...) with the new pair, then return the new access token
UpdateTokens(i) ==
  /\ inv[i].pc = "updateTokens"
  /\ verified_users' = updateTokens(verified_users, CurUser(inv[i]),
                                    inv[i].token, inv[i].token,
                                    clock + ExpiresIn * 1000)
  /\ inv' = [inv EXCEPT ![i] = EnterJoin(@, retryAttempts)]
  /\ UNCHANGED <<timed, migration_runs, migration_user_log, grant, config,
                 crashes, runHist, envFault, member, faults, overlapped, raced>>

\* await markTokenRevoked(...), then throw TOKEN_REVOKED
MarkRevoked(i) ==
  /\ inv[i].pc = "markRevoked"
  /\ verified_users' = markTokenRevoked(verified_users, CurUser(inv[i]))
  /\ inv' = [inv EXCEPT ![i] = [@ EXCEPT !.status = TOKEN_REVOKED, !.pc = "logItem"]]
  /\ UNCHANGED <<timed, migration_runs, migration_user_log, grant, config,
                 crashes, runHist, envFault, member, faults, overlapped, raced>>

\* the catch arm of the for loop runs on what the item body threw
CatchItem(i) ==
  /\ inv[i].pc = "caught"
  /\ inv' = [inv EXCEPT ![i] = Caught(@, inv[i].status, retryAttempts)]
  /\ UNCHANGED <<timed, store, grant, config, crashes, runHist, envFault, member, faults, overlapped, raced>>

\* one attempt of the join inside retryWithBackoff; the provider adds the
\* user (201) unless it is a member already (204), or it fails the call
Join(i, answer) ==
  /\ inv[i].pc = "join"
  /\ LET r == inv[i]
         m == <<r.target, CurUser(r)>>
         res == addUserToGuild(answer)
         err == IF answer = "neterr" THEN "neterr" ELSE "RATE_LIMITED"
         free == answer \in {"201", "204"} \/ (answer = "429" /\ r.attempt > 1)
     IN /\ answer = "201" => m \notin member
        /\ answer = "204" => m \in member
        /\ free \/ FaultAllowed
        /\ faults' = IF free THEN faults ELSE faults + 1
        /\ member' = IF answer = "201" THEN member \cup {m} ELSE member
        /\ inv' = [inv EXCEPT ![i] =
             IF answer = "neterr" \/ res = "rate_limited"
               THEN IF RetryDecision(r.attempt, retryAttempts, IsRateLimitSignal(err)) = "throw"
                      THEN Caught(r, err, retryAttempts)
                      ELSE [r EXCEPT !.attempt = @ + 1]
               ELSE [r EXCEPT !.status = res, !.pc = "logItem"]]
  /\ UNCHANGED <<timed, store, grant, config, crashes, runHist, envFault, overlapped, raced>>

\* await logMigrationUser(run, id, status); the insert may reject
LogItem(i, ok) ==
  /\ inv[i].pc = "logItem"
  /\ ok \/ FaultAllowed
  /\ faults' = IF ok THEN faults ELSE faults + 1
  /\ IF ok
       THEN /\ migration_user_log' = logMigrationUser(migration_user_log, inv[i].run,
                                                      CurUser(inv[i]), inv[i].status)
            /\ inv' = [inv EXCEPT ![i] = Returned(@, inv[i].status, retryAttempts)]
       ELSE /\ migration_user_log' = migration_user_log
            /\ inv' = [inv EXCEPT ![i] = Caught(@, "dberr", retryAttempts)]
  /\ UNCHANGED <<timed, verified_users, migration_runs, grant, config,
                 crashes, runHist, envFault, member, overlapped, raced>>

\* await sendProgressUpdate(statusMessage, ...); the edit may reject
Progress(i, ok) ==
  /\ inv[i].pc = "progress"
  /\ ok \/ FaultAllowed
  /\ faults' = IF ok THEN faults ELSE faults + 1
  /\ inv' = [inv EXCEPT ![i] = AfterProgress(@, ok, retryAttempts)]
  /\ UNCHANGED <<timed, store, grant, config, crashes, runHist, envFault, member, overlapped, raced>>

\* counts of the resumed part are added back, then completeMigrationRun
Finalize(i) ==
  /\ inv[i].pc = "finalize"
  /\ LET c == IF Cardinality(DOMAIN inv[i].already) > 0
                THEN MergeCounts(inv[i].counts, inv[i].already)
                ELSE inv[i].counts
     IN /\ migration_runs' = completeMigrationRun(migration_runs, inv[i].run, c)
        /\ inv' = [inv EXCEPT ![i] = Leave(@, "done", "none")]
  /\ runHist' = [runHist EXCEPT ![inv[i].run].finalized = @ + 1]
  /\ UNCHANGED <<timed, verified_users, migration_user_log, grant, config,
                 crashes, envFault, member, faults, overlapped, raced>>

\* the process is killed: every invocation in flight is gone, the store stays
Crash ==
  /\ \E i \in Invocations : Live(inv[i])
  /\ ~overlapped
  /\ inv' = [i \in Invocations |->
               IF Live(inv[i]) THEN Leave(inv[i], "killed", "none") ELSE inv[i]]
  /\ crashes' = crashes + 1
  /\ UNCHANGED <<timed, store, grant, config, runHist, envFault, member, faults, overlapped, raced>>

Next ==
  \/ \E i \in Invocations, g \in Guilds : Invoke(i, g)
  \/ \E i \in Invocations : Lookup(i)
  \/ \E i \in Invocations : GetProcessed(i)
  \/ \E i \in Invocations : Fetch(i)
  \/ \E i \in Invocations : Create(i)
  \/ \E i \in Invocations, ok \in BOOLEAN : Audit(i, ok)
  \/ \E i \in Invocations, a \in RefreshAnswers : Refresh(i, a)
  \/ \E i \in Invocations : UpdateTokens(i)
  \/ \E i \in Invocations : MarkRevoked(i)
  \/ \E i \in Invocations : CatchItem(i)
  \/ \E i \in Invocations, a \in JoinAnswers : Join(i, a)
  \/ \E i \in Invocations, ok \in BOOLEAN : LogItem(i, ok)
  \/ \E i \in Invocations, ok \in BOOLEAN : Progress(i, ok)
  \/ \E i \in Invocations : Finalize(i)
  \/ Crash

Spec == Init /\ [][Next]_vars

\* ------------------------------------------- processSingleUser on any row
\* processSingleUser takes the row it is handed: here the loop of one
\* invocation, run 1 created, is handed every row of the store, the rows
\* getAllVerifiedUsers holds back included, and a row whose credential has
\* expired
StoreRows == InitRows \cup {ManualRevokedRow, OAuthRow(ExpiresPast)}

AllUsersSeq == SelectSeq([u \in Users |-> u], LAMBDA u : TRUE)

ItemStart(intervals) ==
  /\ TimedIdle
  /\ verified_users \in [Users -> StoreRows]
  /\ grant \in [Users -> {NULL, 1}]
  /\ \A u \in Users :
       IF verified_users[u].refresh_token # NULL /\ NeedsRefresh(verified_users[u])
         THEN TRUE ELSE grant[u] = verified_users[u].refresh_token
  /\ envFault = {u \in Users : grant[u] # verified_users[u].refresh_token}
  /\ migration_runs = <<NewRunRow("g1", NumUsers)>>
  /\ migration_user_log = EmptyBag
  /\ runHist = <<[cands |-> Users, finalized |-> 0]>>
  /\ retryAttempts \in 0..MaxRetryAttempts
  /\ progressInterval \in intervals
  /\ inv = [i \in Invocations |->
              IF i = 1
                THEN [IdleInv EXCEPT !.pc = "audit", !.target = "g1", !.run = 1,
                                     !.nCreated = 1, !.all = AllUsersSeq,
                                     !.snap = verified_users, !.todo = AllUsersSeq]
                ELSE IdleInv]
  /\ crashes = 0
  /\ member = {}
  /\ faults = 0
  /\ overlapped = FALSE
  /\ raced = {}

InitItem == ItemStart({DefaultProgressInterval})

NextItem ==
  \/ \E i \in Invocations, ok \in BOOLEAN : Audit(i, ok)
  \/ \E i \in Invocations, a \in RefreshAnswers : Refresh(i, a)
  \/ \E i \in Invocations : UpdateTokens(i)
  \/ \E i \in Invocations : MarkRevoked(i)
  \/ \E i \in Invocations : CatchItem(i)
  \/ \E i \in Invocations, a \in JoinAnswers : Join(i, a)
  \/ \E i \in Invocations, ok \in BOOLEAN : LogItem(i, ok)
  \/ \E i \in Invocations, ok \in BOOLEAN : Progress(i, ok)
  \/ \E i \in Invocations : Finalize(i)

SpecItem == InitItem /\ [][NextItem]_vars

\* the same loop under the values MIGRATION_PROGRESS_INTERVAL may be given;
\* parseInt gives 0 for '0', and a remainder by 0 equals nothing, as with NaN
ProgressIntervals == {0, 1, 2, 3}

InitProgress == ItemStart(ProgressIntervals)

SpecProgress == InitProgress /\ [][NextItem]_vars

\* ------------------------------------------------ the end-to-end example
\* the store of the example: A with a valid, unexpired credential, B manually
\* authorised without credential, C revoked
ExampleRows == <<OAuthRow(ExpiresLate), ManualRow, RevokedRow>>

InitExample ==
  /\ TimedIdle
  /\ verified_users = ExampleRows
  /\ grant = <<1, NULL, NULL>>
  /\ envFault = {}
  /\ migration_runs = << >>
  /\ migration_user_log = EmptyBag
  /\ runHist = << >>
  /\ retryAttempts \in 0..MaxRetryAttempts
  /\ progressInterval = DefaultProgressInterval
  /\ inv = [i \in Invocations |-> IdleInv]
  /\ crashes = 0
  /\ member = {}
  /\ faults = 0
  /\ overlapped = FALSE
  /\ raced = {}

NextExample ==
  \/ \E i \in Invocations, g \in Guilds : Invoke(i, g)
  \/ \E i \in Invocations : Lookup(i)
  \/ \E i \in Invocations : GetProcessed(i)
  \/ \E i \in Invocations : Fetch(i)
  \/ \E i \in Invocations : Create(i)
  \/ \E i \in Invocations, ok \in BOOLEAN : Audit(i, ok)
  \/ \E i \in Invocations : CatchItem(i)
  \/ \E i \in Invocations, a \in JoinAnswers : Join(i, a)
  \/ \E i \in Invocations, ok \in BOOLEAN : LogItem(i, ok)
  \/ \E i \in Invocations, ok \in BOOLEAN : Progress(i, ok)
  \/ \E i \in Invocations : Finalize(i)
  \/ Crash

SpecExample == InitExample /\ [][NextExample]_vars

\* ------------------------------------------------------------ RateLimiter
Max(a, b) == IF a >= b THEN a ELSE b

\* an interval rounded down
MinInterval_Floor(requestsPerSecond) == 1000 \div requestsPerSecond

\* Math.ceil(1000 / requestsPerSecond), for a positive integer rate
MinInterval(requestsPerSecond) ==
  (1000 + requestsPerSecond - 1) \div requestsPerSecond

\* values of requestsPerSecond; their intervals are 4, 3 and 1 ms
Rates == {300, 400, 1000}

\* a queue served from its end
Shift_Last(q) == [resolve |-> q[Len(q)], rest |-> SubSeq(q, 1, Len(q) - 1)]

\* const resolve = this.queue.shift()
Shift(q) == [resolve |-> Head(q), rest |-> Tail(q)]

\* this.lastRequestTime = Date.now(); shift; resolve(): st is the limiter
\* with the calls released during the running segment of _process
Release(st, now) ==
  LET h == Shift(st.rl.queue)
  IN [rl |-> [st.rl EXCEPT !.lastRequestTime = now, !.queue = h.rest, !.due = NULL],
      out |-> Append(st.out, h.resolve)]

RECURSIVE ProcessLoop(_, _)
\* the while loop of _process from its test up to the next await sleep or
\* to its end
ProcessLoop(st, now) ==
  IF Len(st.rl.queue) > 0
    THEN LET elapsed == now - st.rl.lastRequestTime
             waitTime == Max(0, st.rl.minInterval - elapsed)
         IN IF waitTime > 0
              THEN [st EXCEPT !.rl.due = now + waitTime]
              ELSE ProcessLoop(Release(st, now), now)
    ELSE [st EXCEPT !.rl.processing = FALSE]

\* acquire(): push, then _process(), which returns at once when the loop runs
acquire(rl, id, now) ==
  LET st == [rl |-> [rl EXCEPT !.queue = Append(@, id)], out |-> << >>]
  IN IF rl.processing
       THEN st
       ELSE ProcessLoop([st EXCEPT !.rl.processing = TRUE], now)

\* a loop that ends after the release that follows its sleep
afterSleep_Once(rl, now) ==
  Release([rl |-> rl, out |-> << >>], now)

\* the sleep of _process is over: release the head, then the loop goes on
afterSleep(rl, now) ==
  ProcessLoop(Release([rl |-> rl, out |-> << >>], now), now)

\* the releases of one segment, stamped
Stamp(out, now) == [k \in DOMAIN out |-> [id |-> out[k], at |-> now]]

\* the engine stands still while the limiter is looked at
EngineIdle ==
  /\ verified_users = [u \in Users |-> ManualRow]
  /\ grant = [u \in Users |-> NULL]
  /\ envFault = {}
  /\ migration_runs = << >>
  /\ migration_user_log = EmptyBag
  /\ runHist = << >>
  /\ retryAttempts = MaxRetryAttempts
  /\ progressInterval = DefaultProgressInterval
  /\ inv = [i \in Invocations |-> IdleInv]
  /\ crashes = 0
  /\ member = {}
  /\ faults = 0
  /\ overlapped = FALSE
  /\ raced = {}

InitLimiter ==
  /\ EngineIdle
  /\ clock = StartTime
  /\ \E rps \in Rates :
       /\ rateLimiter = NewRateLimiter(MinInterval(rps))
       /\ pass = [IdlePass EXCEPT !.rps = rps]
  /\ trace = NoTrace
  /\ retry = IdleRetry
  /\ web = IdleWeb

\* some caller calls acquire(); calls are numbered in the order they are made
Acquire ==
  /\ Len(trace.acquires) < MaxAcquires
  /\ LET id == Len(trace.acquires) + 1
         st == acquire(rateLimiter, id, clock)
     IN /\ rateLimiter' = st.rl
        /\ trace' = [trace EXCEPT !.acquires = Append(@, [id |-> id, at |-> clock]),
                                  !.releases = @ \o Stamp(st.out, clock)]
  /\ UNCHANGED <<engine, web, retry, clock, pass>>

\* the timer of await sleep(waitTime) fires, at its time or late
Wake ==
  /\ rateLimiter.due # NULL
  /\ clock >= rateLimiter.due
  /\ LET st == afterSleep(rateLimiter, clock)
     IN /\ rateLimiter' = st.rl
        /\ trace' = [trace EXCEPT !.releases = @ \o Stamp(st.out, clock)]
  /\ UNCHANGED <<engine, web, retry, clock, pass>>

\* a millisecond passes; time is followed for MaxElapsed ms, and beyond
\* that up to the time the pending timer is due
Tick ==
  /\ \/ clock < StartTime + MaxElapsed
     \/ rateLimiter.due # NULL /\ clock < rateLimiter.due
  /\ clock' = clock + 1
  /\ UNCHANGED <<engine, web, retry, rateLimiter, trace, pass>>

NextLimiter == Acquire \/ Wake \/ Tick

SpecLimiter == InitLimiter /\ [][NextLimiter]_vars

\* time passes and a timer that is due fires
SpecLimiterLive == SpecLimiter /\ WF_vars(Tick) /\ WF_vars(Wake)

\* ------------------------------------------- the joins of one pass, timed
\* one invocation's loop over NumUsers principals with usable credentials:
\* acquire, the join inside retryWithBackoff, the insert, the delay
GUILD_JOIN_DELAY_MS == 150

\* values of config.migration.concurrency (the default is 5)
JoinRates == {1, 5, 10}

\* time an HTTP exchange or a query takes, in ms
Latencies == {1, 60}

\* retry_after of a 429 answer, in ms
RetryAfters == {300, 5000}

\* waitMs = (joinResult.retryAfter + 0.5) * 1000
WaitMs(retryAfter) == retryAfter + 500

Min(a, b) == IF a <= b THEN a ELSE b

RECURSIVE Pow2(_)
Pow2(n) == IF n = 0 THEN 1 ELSE 2 * Pow2(n - 1)

\* Math.min(baseDelay * Math.pow(factor, attempt - 1), maxDelay)
BackoffDelay(attempt) == Min(2000 * Pow2(attempt - 1), 60000)

\* delay * (0.5 + Math.random() * 0.5): from half the delay up to the delay
Jitters(attempt) == {BackoffDelay(attempt) \div 2, BackoffDelay(attempt) - 1}

InitJoinRate ==
  /\ EngineIdle
  /\ clock = StartTime
  /\ \E rps \in JoinRates :
       /\ rateLimiter = NewRateLimiter(MinInterval(rps))
       /\ pass = [IdlePass EXCEPT !.rps = rps, !.pc = "acquire", !.k = 1]
  /\ trace = NoTrace
  /\ retry = IdleRetry
  /\ web = IdleWeb

\* the join request of an attempt goes out
StartJoin(p, attempt) ==
  [p EXCEPT !.pc = "join", !.attempt = attempt, !.inFlight = @ + 1]

\* the for loop takes the next principal, or is over
NextPrincipal(p) ==
  IF p.k < NumUsers
    THEN [p EXCEPT !.pc = "acquire", !.k = @ + 1, !.attempt = 0]
    ELSE [p EXCEPT !.pc = "end", !.attempt = 0]

\* acquire() resolved: retryWithBackoff makes its first attempt, or none
AfterAcquire(p) ==
  IF RetryEnters(retryAttempts) THEN StartJoin(p, 1) ELSE [p EXCEPT !.pc = "end"]

\* await rateLimiter.acquire()
PassAcquire ==
  /\ pass.pc = "acquire"
  /\ LET id == Len(trace.acquires) + 1
         st == acquire(rateLimiter, id, clock)
         now == Len(st.out) > 0
     IN /\ rateLimiter' = st.rl
        /\ pass' = IF now THEN AfterAcquire(pass) ELSE [pass EXCEPT !.pc = "waiting"]
        /\ trace' = [trace EXCEPT
                       !.acquires = Append(@, [id |-> id, at |-> clock]),
                       !.releases = @ \o Stamp(st.out, clock),
                       !.joins = IF now /\ RetryEnters(retryAttempts)
                                   THEN Append(@, clock) ELSE @]
  /\ UNCHANGED <<engine, web, retry, clock>>

\* the limiter's sleep is over and the pending acquire() resolves
PassWake ==
  /\ pass.pc = "waiting"
  /\ rateLimiter.due # NULL
  /\ clock' = Max(clock, rateLimiter.due)
  /\ LET st == afterSleep(rateLimiter, clock')
     IN /\ rateLimiter' = st.rl
        /\ pass' = AfterAcquire(pass)
        /\ trace' = [trace EXCEPT
                       !.releases = @ \o Stamp(st.out, clock'),
                       !.joins = IF RetryEnters(retryAttempts)
                                   THEN Append(@, clock') ELSE @]
  /\ UNCHANGED <<engine, web, retry>>

\* the join request is answered after lat ms: a result that is logged
\* ("ok": added, already_in_server or failed), a 429, or the request rejects
PassJoinAnswer(answer, lat) ==
  /\ pass.pc = "join"
  /\ clock' = clock + lat
  /\ LET p == [pass EXCEPT !.inFlight = @ - 1]
     IN pass' =
          CASE answer = "ok" -> [p EXCEPT !.pc = "log"]
            [] answer = "429" -> [p EXCEPT !.pc = "rateLimited"]
            [] OTHER ->
                 IF RetryDecision(p.attempt, retryAttempts, IsRateLimitSignal("neterr")) = "throw"
                   THEN NextPrincipal(p)
                   ELSE [p EXCEPT !.pc = "backoff"]
  /\ UNCHANGED <<engine, web, retry, rateLimiter, trace>>

\* await sleep(waitMs), then throw RATE_LIMITED into retryWithBackoff
PassRateLimited(retryAfter) ==
  /\ pass.pc = "rateLimited"
  /\ clock' = clock + WaitMs(retryAfter)
  /\ pass' = IF RetryDecision(pass.attempt, retryAttempts, IsRateLimitSignal("RATE_LIMITED")) = "throw"
               THEN NextPrincipal(pass)
               ELSE [pass EXCEPT !.pc = "backoff"]
  /\ UNCHANGED <<engine, web, retry, rateLimiter, trace>>

\* await sleep(jitter), then the next attempt
PassBackoff ==
  /\ pass.pc = "backoff"
  /\ \E jitter \in Jitters(pass.attempt) : clock' = clock + jitter
  /\ pass' = StartJoin(pass, pass.attempt + 1)
  /\ trace' = [trace EXCEPT !.joins = Append(@, clock')]
  /\ UNCHANGED <<engine, web, retry, rateLimiter>>

\* await logMigrationUser(...)
PassLog(lat) ==
  /\ pass.pc = "log"
  /\ clock' = clock + lat
  /\ pass' = [pass EXCEPT !.pc = "delay"]
  /\ UNCHANGED <<engine, web, retry, rateLimiter, trace>>

\* await sleep(GUILD_JOIN_DELAY_MS), return, and the loop goes on
PassDelay ==
  /\ pass.pc = "delay"
  /\ clock' = clock + GUILD_JOIN_DELAY_MS
  /\ pass' = NextPrincipal(pass)
  /\ UNCHANGED <<engine, web, retry, rateLimiter, trace>>

NextJoinRate ==
  \/ PassAcquire
  \/ PassWake
  \/ \E a \in {"ok", "429", "neterr"}, lat \in Latencies : PassJoinAnswer(a, lat)
  \/ \E ra \in RetryAfters : PassRateLimited(ra)
  \/ PassBackoff
  \/ \E lat \in Latencies : PassLog(lat)
  \/ PassDelay

SpecJoinRate == InitJoinRate /\ [][NextJoinRate]_vars

\* ------------------------------------------------------- retryWithBackoff
\* retryWithBackoff(fn, options) as any caller may use it: the options are
\* its defaults, those of the join call site, and a low maxDelay; fn answers
\* with a result or throws an Error, both marked with the attempt number
RetryOptions ==
  {[baseDelay |-> 1000, maxDelay |-> 30000, factor |-> 2],
   [baseDelay |-> 2000, maxDelay |-> 60000, factor |-> 2],
   [baseDelay |-> 1000, maxDelay |-> 3000, factor |-> 2]}

Errors == {"E1", "E2"}

RECURSIVE Pow(_, _)
Pow(b, n) == IF n = 0 THEN 1 ELSE b * Pow(b, n - 1)

\* a delay that is not capped
Delay_Uncapped(baseDelay, factor, maxDelay, attempt) ==
  baseDelay * Pow(factor, attempt - 1)

\* Math.min(baseDelay * Math.pow(factor, attempt - 1), maxDelay)
Delay(baseDelay, factor, maxDelay, attempt) ==
  Min(baseDelay * Pow(factor, attempt - 1), maxDelay)

\* delay * (0.5 + Math.random() * 0.5), Math.random() being r / RandomSteps
\* for some r in 0 .. RandomSteps - 1; rounded down to the millisecond
Jitter(delay, r) == (delay * (RandomSteps + r)) \div (2 * RandomSteps)

InitRetry ==
  /\ EngineIdle
  /\ clock = StartTime
  /\ rateLimiter = NewRateLimiter(0)
  /\ trace = NoTrace
  /\ pass = IdlePass
  /\ web = IdleWeb
  /\ \E m \in 0..MaxAttemptsGiven, o \in RetryOptions, ro \in SUBSET Errors :
       retry = [IdleRetry EXCEPT !.pc = "enter", !.maxAttempts = m,
                                 !.baseDelay = o.baseDelay, !.maxDelay = o.maxDelay,
                                 !.factor = o.factor, !.retryOn = ro]

\* let lastError; the for loop is entered or `throw lastError` reached
RetryEnter ==
  /\ retry.pc = "enter"
  /\ retry' = IF RetryEnters(retry.maxAttempts)
                THEN [retry EXCEPT !.pc = "call", !.attempt = 1]
                ELSE [retry EXCEPT !.pc = "threw", !.result = "undefined"]
  /\ UNCHANGED <<engine, web, clock, rateLimiter, trace, pass>>

\* return await fn(attempt), or the catch arm up to the sleep
RetryCall(answer, r) ==
  /\ retry.pc = "call"
  /\ LET n == retry.attempt
         called == [retry EXCEPT !.calls = Append(@, n)]
         failed == [called EXCEPT !.errors = Append(@, <<answer, n>>)]
     IN retry' =
          IF answer = "ok"
            THEN [called EXCEPT !.pc = "returned", !.result = <<"ok", n>>]
            ELSE IF RetryDecision(n, retry.maxAttempts, answer \in retry.retryOn) = "throw"
                   THEN [failed EXCEPT !.pc = "threw", !.result = <<answer, n>>]
                   ELSE [failed EXCEPT !.pc = "sleep",
                           !.waits = Append(@, Jitter(Delay(retry.baseDelay, retry.factor,
                                                            retry.maxDelay, n), r))]
  /\ UNCHANGED <<engine, web, clock, rateLimiter, trace, pass>>

\* await sleep(jitter) is over: attempt++ and the loop test
RetryWake ==
  /\ retry.pc = "sleep"
  /\ clock' = clock + retry.waits[Len(retry.waits)]
  /\ retry' = IF retry.attempt + 1 <= retry.maxAttempts
                THEN [retry EXCEPT !.attempt = @ + 1, !.pc = "call"]
                ELSE [retry EXCEPT !.attempt = @ + 1, !.pc = "threw",
                                   !.result = retry.errors[Len(retry.errors)]]
  /\ UNCHANGED <<engine, web, rateLimiter, trace, pass>>

NextRetry ==
  \/ RetryEnter
  \/ \E answer \in {"ok"} \cup Errors, r \in 0..(RandomSteps - 1) : RetryCall(answer, r)
  \/ RetryWake

SpecRetry == InitRetry /\ [][NextRetry]_vars

\* ----------------------------------------------------------------- claims
RunningRuns(g) ==
  {r \in DOMAIN migration_runs : migration_runs[r].target_guild_id = g
                                 /\ migration_runs[r].status = "running"}

\* the invocation resumed a run whose earlier pass was killed, and no other
\* invocation shares the run
ResumedAfterKill(i) ==
  /\ inv[i].existing # NULL
  /\ \E j \in Invocations : inv[j].pc = "killed" /\ inv[j].run = inv[i].run
  /\ \A j \in Invocations \ {i} : inv[j].run = inv[i].run => inv[j].pc = "killed"

\* C1: when a pass is killed and executeMigration is invoked again for the
\* same target, the finished run's item log holds every candidate of the run
\* exactly once, and the outcomes the resumed pass read from the log are
\* still the logged ones.
C1_ResumeCorrectness ==
  \A i \in Invocations :
    (inv[i].pc = "done" /\ ResumedAfterKill(i)) =>
      /\ \A u \in runHist[inv[i].run].cands :
           RowCount(migration_user_log, inv[i].run, u) = 1
      /\ \A u \in DOMAIN inv[i].already :
           LogRow(inv[i].run, u, inv[i].already[u]) \in BagToSet(migration_user_log)

\* C2: for every run id and every principal id the item log holds at most
\* one row, in every reachable state.
C2_ItemLogUnique ==
  \A r \in DOMAIN migration_runs, u \in Users :
    RowCount(migration_user_log, r, u) <= 1

\* C3: a principal that has an item-log row in the resumed run when the pass
\* reads the log is not among the users the pass works on: no refresh, no
\* acquire, no join and no item-log insert is made for it by the pass.
C3_SkipProcessed ==
  \A i \in Invocations :
    \A k \in DOMAIN inv[i].todo : inv[i].todo[k] \notin DOMAIN inv[i].already

C3_Witness ==
  \E i \in Invocations :
    /\ DOMAIN inv[i].already # {}
    /\ inv[i].pc = "finalize"
    /\ inv[i].processed >= 1

\* executeMigration is past the create-or-resume decision
Resolved(r) ==
  \/ r.pc \in {"audit", "refresh", "updateTokens", "markRevoked", "join",
               "logItem", "caught", "progress", "finalize", "done"}
  \/ r.pc = "thrown" /\ r.site \in {"engine", "item"}

ResumeOK(r) ==
  /\ r.run = r.existing
  /\ r.nCreated = 0
  /\ \A u \in DOMAIN r.already :
       LogRow(r.run, u, r.already[u]) \in BagToSet(migration_user_log)
  /\ (Live(r) /\ ~overlapped) =>
       \A u \in Users :
         RowsOf(migration_user_log, r.run, u) # {} =>
           u \in DOMAIN r.already \/ \E k \in DOMAIN r.todo : r.todo[k] = u

NewOK(r) ==
  /\ r.nCreated = 1
  /\ DOMAIN r.already = {}
  /\ r.run \in DOMAIN migration_runs
  /\ migration_runs[r.run].target_guild_id = r.target
  /\ Live(r) => migration_runs[r.run].total_users = Len(r.all)
  /\ (r.pc = "audit" /\ ~overlapped) => migration_runs[r.run].status = "running"

ResolutionOK(r) == IF r.existing # NULL THEN ResumeOK(r) ELSE NewOK(r)

\* C4 (as claimed): an invocation whose lookup found a running run uses it,
\* creates no row and holds the map of the users logged for it; an invocation
\* whose lookup found none has created exactly one run, status running, total
\* the candidate count, and holds an empty map.
C4_RunResolution ==
  \A i \in Invocations :
    (Resolved(inv[i]) \/ (inv[i].pc = "thrown" /\ inv[i].site = "nousers")) =>
      ResolutionOK(inv[i])

\* C4 (amended): the same, for invocations whose candidate list is not empty;
\* with an empty list executeMigration throws and, when the lookup found no
\* running run, no run has been created.
C4_RunResolutionAmended ==
  \A i \in Invocations :
    /\ Resolved(inv[i]) => ResolutionOK(inv[i])
    /\ (inv[i].pc = "thrown" /\ inv[i].site = "nousers" /\ inv[i].existing = NULL) =>
         inv[i].nCreated = 0 /\ inv[i].run = NULL

C4_Witness ==
  \E i, j \in Invocations :
    /\ inv[i].pc = "audit" /\ inv[i].existing # NULL /\ DOMAIN inv[i].already # {}
    /\ inv[j].nCreated = 1 /\ inv[j].run = inv[i].run

\* C5: a run row starts as running, and once its status is completed or
\* failed no step changes the status.
C5_StatusMonotonic ==
  [][ /\ \A r \in DOMAIN migration_runs :
           /\ r \in DOMAIN migration_runs'
           /\ migration_runs[r].status \in {"completed", "failed"} =>
                migration_runs'[r].status = migration_runs[r].status
      /\ \A r \in DOMAIN migration_runs' \ DOMAIN migration_runs :
           migration_runs'[r].status = "running" ]_vars

\* a completed run has taken a second finalising write
C5_Witness ==
  \E r \in DOMAIN migration_runs :
    migration_runs[r].status = "completed" /\ runHist[r].finalized >= 2

\* C6: the finalising write is applied to a run at most once.
C6_FinalizedOnce ==
  \A r \in DOMAIN runHist : runHist[r].finalized <= 1

\* C7 (as claimed): at most one run per target has status running, in every
\* interleaving of invocations.
C7_OneRunningPerTarget ==
  \A g \in Guilds : Cardinality(RunningRuns(g)) <= 1

\* C7 (amended): at most one run per target has status running, unless an
\* invocation for the target started while another invocation for the same
\* target was in flight.
C7_OneRunningUnlessRaced ==
  \A g \in Guilds : g \in raced \/ Cardinality(RunningRuns(g)) <= 1

\* a second invocation for the target has resumed the run the first left
C7_Witness ==
  \E i, j \in Invocations :
    /\ i # j /\ inv[i].target = inv[j].target /\ inv[i].target \notin raced
    /\ inv[i].nCreated = 1 /\ inv[j].existing = inv[i].run
    /\ Cardinality(RunningRuns(inv[i].target)) = 1

\* C8: with invocations for different targets only, every item-log row is
\* the one a pass on its own writes: run one after the other, a pass reads
\* the credentials the pass before stored, so a credential outcome
\* (token_revoked, refresh_failed) is logged only for a user the provider
\* itself refused.
C8_DifferentTargetsSafe ==
  raced = {} =>
    \A e \in BagToSet(migration_user_log) :
      e.status \in {TOKEN_REVOKED, REFRESH_FAILED} => e.discord_id \in envFault

\* C9: an invocation for a guild the client does not know has resolved no
\* run, created none and read no log; no run row and no membership exists
\* for such a guild.
C9_PreconditionNoEffect ==
  /\ \A i \in Invocations :
       (inv[i].pc # "idle" /\ inv[i].target \notin KnownGuilds) =>
         /\ inv[i].pc = "thrown" /\ inv[i].site = "precondition"
         /\ inv[i].run = NULL /\ inv[i].existing = NULL /\ inv[i].nCreated = 0
  /\ \A r \in DOMAIN migration_runs : migration_runs[r].target_guild_id \in KnownGuilds
  /\ \A m \in member : m[1] \in KnownGuilds

C9_Witness ==
  \E i \in Invocations :
    /\ inv[i].site = "precondition"
    /\ Len(migration_runs) > 0

\* C10: no invocation leaves executeMigration from inside the per-item body
\* of the loop.
C10_ItemFailureNeverAborts ==
  \A i \in Invocations : inv[i].site # "item"

\* the users whose per-item processing threw in the pass of invocation i
ThrewIn(i) == {p[1] : p \in inv[i].threw}

\* C11: after a pass, the run's item log holds a 'failed' row for every
\* principal whose per-item processing threw during the pass.
C11_ExceptionRecordedFailed ==
  \A i \in Invocations :
    inv[i].pc = "done" =>
      \A u \in ThrewIn(i) : LogRow(inv[i].run, u, FAILED) \in BagToSet(migration_user_log)

\* C12: a principal whose join was answered rate_limited on every attempt up
\* to maxAttempts has an item-log row in the run once the pass is over.
C12_RateLimitNeverFinal ==
  \A i \in Invocations :
    inv[i].pc = "done" =>
      \A p \in inv[i].threw :
        IsRateLimitSignal(p[2]) => RowsOf(migration_user_log, inv[i].run, p[1]) # {}

\* C13: when an exception has left executeMigration outside the per-item
\* body after the run was resolved or created, the run's status is 'failed'.
C13_EngineErrorMarksFailed ==
  \A i \in Invocations :
    (inv[i].pc = "thrown" /\ inv[i].site = "engine" /\ inv[i].run # NULL) =>
      migration_runs[inv[i].run].status = "failed"

\* C15: a failure of ensureFreshToken with TOKEN_REVOKED leads to the
\* item-log insert of outcome token_revoked, any other failure of it to the
\* insert of refresh_failed; the row inserted is that outcome's, no join call
\* has been made for the principal, and the loop goes on to the next
\* principal (or past the loop after the last one).
C15_CredentialFailureStep(i) ==
  LET r == inv[i]
      q == inv'[i]
  IN /\ (r.pc = "markRevoked" /\ q.pc \notin {"markRevoked", "killed"}) =>
          q.pc = "logItem" /\ q.status = TOKEN_REVOKED /\ q.attempt = 0
     /\ (r.pc = "refresh" /\ q.pc \notin {"refresh", "killed", "updateTokens", "markRevoked"}) =>
          q.pc = "logItem" /\ q.status = REFRESH_FAILED /\ q.attempt = 0
     /\ (r.pc = "logItem" /\ r.status \in {TOKEN_REVOKED, REFRESH_FAILED}
           /\ q.pc \notin {"logItem", "killed"} /\ q.threw = r.threw) =>
          /\ r.attempt = 0
          /\ member' = member
          /\ migration_user_log' =
               migration_user_log (+) SetToBag({LogRow(r.run, CurUser(r), r.status)})
          /\ q.counts.tokenRevoked = r.counts.tokenRevoked + 1
          /\ IF ProgressDue(r.processed, progressInterval, Len(r.todo))
               THEN q.pc = "progress" /\ q.processed = r.processed
               ELSE Live(q) /\ q.pc # "finalize" /\ q.processed = r.processed + 1
     /\ (r.pc = "progress" /\ q.pc \notin {"progress", "killed"}) =>
          IF r.processed < Len(r.todo)
            THEN Live(q) /\ q.pc # "finalize" /\ q.processed = r.processed + 1
            ELSE q.pc = "finalize"

C15_CredentialFailuresClassified ==
  [][\A i \in Invocations : C15_CredentialFailureStep(i)]_vars

\* both credential outcomes were logged in one pass, which went on
C15_Witness ==
  \E i \in Invocations :
    /\ inv[i].pc = "finalize" /\ inv[i].processed = 2 /\ inv[i].threw = {}
    /\ {e.status : e \in {x \in BagToSet(migration_user_log) : x.migration_run_id = inv[i].run}}
         = {TOKEN_REVOKED, REFRESH_FAILED}

\* the principals of the pass of invocation i that it is through with
PassDone(i) ==
  LET r == inv[i]
      n == IF r.pc \in {"progress", "finalize"} THEN r.processed ELSE r.processed - 1
  IN {r.todo[k] : k \in 1..n}

\* number of those that have a row of the run with an outcome in S
PassCount(i, S) ==
  Cardinality({u \in PassDone(i) :
                 \E o \in S : LogRow(inv[i].run, u, o) \in BagToSet(migration_user_log)})

InLoop(r) ==
  r.pc \in {"refresh", "updateTokens", "markRevoked", "join", "logItem", "caught",
           "progress", "finalize"}

\* the counts of the pass are the outcomes the pass gave
PassCountsOK ==
  \A i \in Invocations :
    (InLoop(inv[i]) /\ ~overlapped) =>
      /\ inv[i].counts.added = PassCount(i, {ADDED})
      /\ inv[i].counts.alreadyIn = PassCount(i, {ALREADY_IN})
      /\ inv[i].counts.skippedManual = PassCount(i, {SKIPPED_MANUAL})
      /\ inv[i].counts.tokenRevoked = PassCount(i, {TOKEN_REVOKED, REFRESH_FAILED})
      /\ inv[i].counts.failed = PassCount(i, {FAILED}) + Cardinality(ThrewIn(i) \cap PassDone(i))

\* the finalising write of invocation i persists pass counts plus prior log
FinalizeMerges(i, revokedOutcomes) ==
  LET r == inv[i]
      row == migration_runs'[r.run]
      prior(S) == Cardinality({u \in DOMAIN r.already : r.already[u] \in S})
  IN (r.pc = "finalize" /\ inv'[i].pc = "done") =>
       /\ row.status = "completed"
       /\ row.added_count = r.counts.added + prior({ADDED})
       /\ row.already_in_count = r.counts.alreadyIn + prior({ALREADY_IN})
       /\ row.skipped_manual = r.counts.skippedManual + prior({SKIPPED_MANUAL})
       /\ row.failed_count = r.counts.failed + prior({FAILED})
       /\ row.token_revoked_count =
            (IF ~overlapped THEN PassCount(i, revokedOutcomes) ELSE r.counts.tokenRevoked)
              + prior(revokedOutcomes)

\* C16 (as claimed): the counts completeMigrationRun persists are, per
\* outcome, the number of principals given the outcome in the current pass
\* plus the number of entries with the outcome in the prior item log of the
\* resumed run; token_revoked_count is the count of outcome token_revoked.
C16_MergedCounts ==
  /\ []PassCountsOK
  /\ [][\A i \in Invocations : FinalizeMerges(i, {TOKEN_REVOKED})]_vars

\* C16 (amended): the same per counter, where token_revoked_count counts the
\* outcomes token_revoked and refresh_failed together.
C16_MergedCountsAmended ==
  /\ []PassCountsOK
  /\ [][\A i \in Invocations : FinalizeMerges(i, {TOKEN_REVOKED, REFRESH_FAILED})]_vars

\* a resumed run was finalised with outcomes from both the prior log and the pass
C16_Witness ==
  \E i \in Invocations :
    /\ inv[i].pc = "done" /\ DOMAIN inv[i].already # {}
    /\ \E u \in Users : u \notin DOMAIN inv[i].already
                          /\ RowsOf(migration_user_log, inv[i].run, u) # {}
    /\ migration_runs[inv[i].run].added_count >= 1

\* C14: a principal whose row is manually verified with no access credential
\* gets outcome skipped_manual whatever its token_revoked flag is (no
\* refresh, no join), so an outcome token_revoked given on the flag goes to
\* rows that fail that test only.
C14_ClassificationPrecedence ==
  \A i \in Invocations :
    (InLoop(inv[i]) /\ inv[i].pc \notin {"progress", "finalize"}) =>
      LET r == inv[i]
          row == r.snap[CurUser(r)]
      IN (row.manually_verified /\ row.access_token = NULL) =>
           r.pc = "logItem" /\ r.status = SKIPPED_MANUAL /\ r.attempt = 0

\* a revoked principal, manually verified and without credential, is at the
\* insert of its outcome, and a revoked one that is not manual has its row
C14_Witness ==
  \E i \in Invocations :
    /\ inv[i].pc = "logItem" /\ inv[i].status = SKIPPED_MANUAL
    /\ inv[i].snap[CurUser(inv[i])] = ManualRevokedRow
    /\ \E e \in BagToSet(migration_user_log) :
         e.status = TOKEN_REVOKED /\ inv[i].snap[e.discord_id] = RevokedRow

\* C17: with the example's store, an uninterrupted first run in which
\* join(A) is answered added ends with the run completed and counts added 1,
\* already_in 0, skipped_manual 1, token_revoked 1, failed 0.
C17_EndToEndExample ==
  \A i \in Invocations :
    (/\ inv[i].pc = "done" /\ inv[i].existing = NULL /\ inv[i].threw = {}
     /\ LogRow(inv[i].run, 1, ADDED) \in BagToSet(migration_user_log)) =>
      LET row == migration_runs[inv[i].run]
      IN /\ row.status = "completed"
         /\ row.added_count = 1
         /\ row.already_in_count = 0
         /\ row.skipped_manual = 1
         /\ row.token_revoked_count = 1
         /\ row.failed_count = 0

\* C18: any two successive releases of one limiter of rate R are at least
\* 1000/R ms apart, whatever the arrivals are, and the n-th release is at
\* least (n-1) * 1000/R ms after the first call.
C18_MinimumInterval ==
  LET rel == trace.releases
  IN /\ \A k \in 1..(Len(rel) - 1) :
          (rel[k + 1].at - rel[k].at) * pass.rps >= 1000
     /\ \A n \in DOMAIN rel :
          (rel[n].at - trace.acquires[1].at) * pass.rps >= (n - 1) * 1000

\* every call was made after the release of the one before, and all are released
C18_Witness ==
  /\ Len(trace.releases) = MaxAcquires
  /\ \A k \in 1..(MaxAcquires - 1) : trace.acquires[k + 1].at > trace.releases[k].at

\* C19: the calls of acquire() are released in the order they were made.
C19_Fifo ==
  \A k \in DOMAIN trace.releases : trace.releases[k].id = k

\* two calls came in while the loop slept for the one before them, and all
\* are released
C19_Witness ==
  /\ Len(trace.releases) = MaxAcquires
  /\ \E k \in 2..(MaxAcquires - 1) :
       /\ trace.acquires[k].at < trace.releases[k - 1].at + rateLimiter.minInterval
       /\ trace.acquires[k + 1].at < trace.releases[k].at

\* C20: within one invocation, any two successive join calls (first attempts
\* and retries alike) start at least 1000/requestsPerSecond ms apart, and at
\* most one join call is in flight.
C20_JoinRateBounded ==
  /\ \A k \in 1..(Len(trace.joins) - 1) :
       (trace.joins[k + 1] - trace.joins[k]) * pass.rps >= 1000
  /\ pass.inFlight <= 1

\* C24: ensureFreshToken makes no refresh call and changes nothing stored for
\* a principal whose credential expires more than TOKEN_REFRESH_BUFFER_SECONDS
\* after now; for one whose credential expires within the buffer, or has
\* expired, it makes exactly one refresh call.
C24_RefreshOnlyWithinBuffer ==
  \A i \in Invocations :
    (InLoop(inv[i]) /\ inv[i].pc # "finalize") =>
      LET r == inv[i]
          u == CurUser(r)
          row == r.snap[u]
      IN PreClassify(row) = "oauth" =>
           IF row.token_expires_at - clock > TOKEN_REFRESH_BUFFER_SECONDS * 1000
             THEN /\ r.nRefresh = 0
                  /\ r.pc \notin {"refresh", "updateTokens", "markRevoked"}
                  /\ verified_users[u] = row
             ELSE IF r.pc = "refresh" THEN r.nRefresh = 0 ELSE r.nRefresh = 1

\* a principal whose credential expires at the end of the buffer was
\* refreshed once and added, after one with a later expiry was added
C24_Witness ==
  \E i \in Invocations :
    /\ inv[i].pc = "logItem" /\ inv[i].status = ADDED /\ inv[i].nRefresh = 1
    /\ inv[i].snap[CurUser(inv[i])].token_expires_at = ExpiresSoon
    /\ \E e \in BagToSet(migration_user_log) :
         e.status = ADDED /\ inv[i].snap[e.discord_id].token_expires_at = ExpiresLate

\* C25: when the provider refuses the refresh credential with an invalid-grant
\* signal, with or without an error description, the principal's row gets
\* token_revoked = true, its access and refresh credentials are cleared, and
\* the operation fails with TOKEN_REVOKED.
C25_InvalidGrantStep(i) ==
  LET r == inv[i]
      q == inv'[i]
  IN /\ (/\ r.pc = "refresh" /\ q.nRefresh = r.nRefresh + 1
         /\ q.pc # "updateTokens" /\ faults' = faults) =>
          q.pc = "markRevoked"
     /\ (r.pc = "markRevoked" /\ q.pc \notin {"markRevoked", "killed"}) =>
          /\ verified_users'[CurUser(r)].token_revoked
          /\ verified_users'[CurUser(r)].access_token = NULL
          /\ verified_users'[CurUser(r)].refresh_token = NULL
          /\ q.status = TOKEN_REVOKED

C25_InvalidGrantRevokes ==
  [][\A i \in Invocations : C25_InvalidGrantStep(i)]_vars

\* C26: a refresh that fails for a transient reason (network error, provider
\* rate limit, server error) leaves the stored access credential, refresh
\* credential, expiry and revoked flag untouched: the principal is logged
\* refresh_failed and nothing is written to its row, so a later run can succeed.
C26_TransientStep(i) ==
  LET r == inv[i]
      q == inv'[i]
  IN /\ (r.pc = "refresh" /\ q.nRefresh = r.nRefresh + 1 /\ faults' = faults + 1) =>
          /\ verified_users' = verified_users
          /\ q.pc = "logItem" /\ q.status = REFRESH_FAILED
     /\ (r.pc = "logItem" /\ r.status = REFRESH_FAILED /\ q # r) =>
          verified_users' = verified_users

C27_RevocationStep(i) ==
  LET r == inv[i]
      q == inv'[i]
  IN /\ (r.pc = "refresh" /\ q.nRefresh = r.nRefresh + 1 /\ q.pc # "updateTokens") =>
          /\ verified_users' = verified_users
          /\ \/ q.pc = "markRevoked"
             \/ q.pc = "logItem" /\ q.status = REFRESH_FAILED
          /\ faults' = faults + 1 => q.pc = "logItem"
     /\ (r.pc = "markRevoked" /\ q.pc \notin {"markRevoked", "killed"}) =>
          /\ verified_users'[CurUser(r)].token_revoked
          /\ q.pc = "logItem" /\ q.status = TOKEN_REVOKED

C28_GivenUpStep(i) ==
  LET r == inv[i]
      q == inv'[i]
      calls == IF r.pc = "join" THEN r.attempt ELSE 0
  IN (\E e \in q.threw \ r.threw : e[2] \in {"RATE_LIMITED", "undefined"}) =>
       calls = retryAttempts + 1

C28_RetryAttemptsAreRetries ==
  [][\A i \in Invocations : C28_GivenUpStep(i)]_vars

RECURSIVE SumSeq(_)
SumSeq(q) == IF q = << >> THEN 0 ELSE q[1] + SumSeq(Tail(q))

\* C21: with retryOn always true and maxAttempts >= 1, retryWithBackoff calls
\* the operation with attempt numbers 1, 2, ...; it stops at the first
\* success and returns that attempt's result, after exactly k - 1 retries
\* when attempt k succeeds; when no attempt succeeds it has called the
\* operation exactly maxAttempts times and throws the error of the final
\* attempt unchanged.
C21_RetryCountAndResult ==
  (retry.pc # "off" /\ retry.maxAttempts >= 1 /\ retry.retryOn = Errors) =>
    LET k == Len(retry.calls)
    IN /\ retry.calls = [n \in 1..k |-> n]
       /\ k <= retry.maxAttempts
       /\ retry.pc = "returned" =>
            /\ retry.result = <<"ok", k>>
            /\ Len(retry.errors) = k - 1 /\ Len(retry.waits) = k - 1
       /\ retry.pc # "returned" => Len(retry.errors) = k
       /\ retry.pc = "threw" =>
            /\ k = retry.maxAttempts
            /\ retry.result = retry.errors[k] /\ retry.result[2] = k

\* an operation that failed twice succeeded at attempt 3 of 3, and its
\* result was returned after two waits
C21_Witness ==
  /\ retry.pc = "returned" /\ retry.maxAttempts = 3 /\ retry.retryOn = Errors
  /\ retry.calls = <<1, 2, 3>> /\ Len(retry.waits) = 2
  /\ retry.result = <<"ok", 3>>

\* C22: when the operation fails at attempt n and retryOn(error) is false,
\* retryWithBackoff throws that same error at once: it does not wait and does
\* not call the operation again, for every n <= maxAttempts.
C22_NonRetryableTerminal ==
  (retry.pc # "off" /\ retry.maxAttempts >= 1) =>
    LET n == Len(retry.errors)
    IN /\ \A k \in 1..(n - 1) : retry.errors[k][1] \in retry.retryOn
       /\ (n > 0 /\ retry.errors[n][1] \notin retry.retryOn) =>
            /\ retry.pc = "threw" /\ retry.result = retry.errors[n]
            /\ Len(retry.calls) = n /\ Len(retry.waits) = n - 1
            /\ clock = StartTime + SumSeq(retry.waits)

\* attempt 2 of 4 threw an error retryOn refuses, after a retryable one,
\* and that error was thrown on
C22_Witness ==
  /\ retry.pc = "threw" /\ retry.maxAttempts = 4 /\ retry.retryOn = {"E1"}
  /\ retry.errors = <<<<"E1", 1>>, <<"E2", 2>>>>
  /\ retry.result = <<"E2", 2>>

\* C23: the wait between failed attempt n and attempt n + 1 lies between
\* 0.5 * d and d, where d = min(baseDelay * factor^(n-1), maxDelay); no wait
\* exceeds maxDelay, and d is non-decreasing in n.
C23_d(n) ==
  LET x == retry.baseDelay * Pow(retry.factor, n - 1)
  IN IF x < retry.maxDelay THEN x ELSE retry.maxDelay

C23_BackoffBounds ==
  \A n \in 1..Len(retry.waits) :
    /\ 2 * retry.waits[n] >= C23_d(n)
    /\ retry.waits[n] <= C23_d(n)
    /\ retry.waits[n] <= retry.maxDelay
    /\ n > 1 => C23_d(n) >= C23_d(n - 1)

\* the third wait was cut to maxDelay, and waits of half the delay and of
\* more than half were drawn
C23_Witness ==
  /\ Len(retry.waits) = 3
  /\ retry.baseDelay * Pow(retry.factor, 2) > retry.maxDelay
  /\ 2 * retry.waits[3] > retry.maxDelay
  /\ 2 * retry.waits[2] = C23_d(2)

\* C29: during a pass over n principals the progress update is issued after
\* the k-th processed principal exactly when k is a multiple of
\* progressInterval or k = n: always after the last principal, and after
\* every principal whatever its outcome, those whose processing threw
\* included.
C29_Due(k, n) ==
  (progressInterval > 0 /\ k % progressInterval = 0) \/ k = n

C29_InBody(r) ==
  r.pc \in {"refresh", "updateTokens", "markRevoked", "join", "logItem", "caught"}

C29_Step(i) ==
  LET r == inv[i]
      q == inv'[i]
      k == r.processed
  IN /\ (/\ C29_InBody(r) /\ q.pc # "killed"
         /\ (q.processed # k \/ ~C29_InBody(q))) =>
          IF C29_Due(k, Len(r.todo))
            THEN q.pc = "progress" /\ q.processed = k
            ELSE q.pc # "progress"
     /\ (r.pc = "progress" /\ q # r /\ q.pc # "killed") => k \in q.progress

C29_ProgressCadence ==
  /\ [](\A i \in Invocations :
          InLoop(inv[i]) =>
            LET r == inv[i]
                passed == IF r.pc = "finalize" THEN r.processed ELSE r.processed - 1
            IN r.progress = {k \in 1..passed : C29_Due(k, Len(r.todo))})
  /\ [][\A i \in Invocations : C29_Step(i)]_vars

\* C30: a failed edit of the progress message is swallowed at every progress
\* point: the pass goes on to the next principal or to the finalising write,
\* never leaves executeMigration through the update, the principals after
\* it get their item-log rows and the run is finalized completed.
C30_Step(i) ==
  LET r == inv[i]
      q == inv'[i]
  IN (r.pc = "progress" /\ q # r /\ q.pc # "killed") =>
       /\ store' = store
       /\ IF r.processed < Len(r.todo)
            THEN Live(q) /\ q.pc # "finalize" /\ q.processed = r.processed + 1
            ELSE q.pc = "finalize"

C30_ProgressFailureSwallowed ==
  /\ [](\A i \in Invocations :
          inv[i].editFailed # {} =>
            /\ ~(inv[i].pc = "thrown" /\ inv[i].site = "engine")
            /\ inv[i].pc = "finalize" =>
                 \A k \in DOMAIN inv[i].todo :
                   inv[i].todo[k] \notin ThrewIn(i) =>
                     RowsOf(migration_user_log, inv[i].run, inv[i].todo[k]) # {}
            /\ inv[i].pc = "done" => migration_runs[inv[i].run].status = "completed")
  /\ [][\A i \in Invocations : C30_Step(i)]_vars

\* the edit after the first principal failed, the second principal was
\* processed and logged, and the run is completed
C30_Witness ==
  \E i \in Invocations :
    /\ inv[i].pc = "done" /\ inv[i].editFailed = {1}
    /\ migration_runs[inv[i].run].status = "completed"
    /\ \A u \in Users : RowsOf(migration_user_log, inv[i].run, u) # {}

\* C33: a principal that gets skipped_manual, or token_revoked because its
\* revoked flag is already set, causes no refresh call, no acquire and no
\* join call, and exactly one item-log entry is written for it.
C33_NoCredential(row) ==
  (row.manually_verified /\ row.access_token = NULL) \/ row.token_revoked

C33_Step(i) ==
  LET r == inv[i]
      q == inv'[i]
  IN (/\ InLoop(r) /\ r.pc \notin {"progress", "finalize"}
      /\ C33_NoCredential(r.snap[CurUser(r)]) /\ q # r /\ q.pc # "killed") =>
       /\ r.pc = "logItem"
       /\ verified_users' = verified_users /\ member' = member /\ grant' = grant
       /\ \/ migration_user_log' =
               migration_user_log (+) SetToBag({LogRow(r.run, CurUser(r), r.status)})
          \/ migration_user_log' = migration_user_log /\ faults' = faults + 1
       /\ q.processed # r.processed \/ q.pc \in {"progress", "finalize", "thrown"}

C33_NoNetworkWithoutCredential ==
  /\ [](\A i \in Invocations :
          (InLoop(inv[i]) /\ inv[i].pc \notin {"progress", "finalize"}
           /\ C33_NoCredential(inv[i].snap[CurUser(inv[i])])) =>
            /\ inv[i].pc = "logItem"
            /\ inv[i].nRefresh = 0 /\ inv[i].attempt = 0 /\ inv[i].token = NULL
            /\ inv[i].status \in {SKIPPED_MANUAL, TOKEN_REVOKED}
            /\ RowsOf(migration_user_log, inv[i].run, CurUser(inv[i])) = {})
  /\ [][\A i \in Invocations : C33_Step(i)]_vars

\* a revoked principal got its token_revoked row after a manual one got its
\* skipped_manual row, and nobody was joined or refreshed
C33_Witness ==
  /\ member = {} /\ \A u \in Users : verified_users[u] \in {ManualRow, RevokedRow}
  /\ \E e1, e2 \in BagToSet(migration_user_log) :
       /\ e1.status = SKIPPED_MANUAL /\ verified_users[e1.discord_id] = ManualRow
       /\ e2.status = TOKEN_REVOKED /\ verified_users[e2.discord_id] = RevokedRow
  /\ BagCardinality(migration_user_log) = 2

\* C35: a 201 answer of the join is outcome added, 204 already_in, 429
\* rate_limited (the only answer that is retried), any other answer a
\* terminal failed; after added, already_in or failed no further join call is
\* made for the principal in the pass, and that outcome is the one written
\* to the item log.
C35_Step(i) ==
  LET r == inv[i]
      q == inv'[i]
      m == <<r.target, CurUser(r)>>
      left == q.processed # r.processed \/ q.pc \in {"progress", "finalize", "thrown"}
  IN /\ (r.pc = "join" /\ q # r /\ q.pc # "killed") =>
          /\ member' # member => q.pc = "logItem" /\ q.status = ADDED
          /\ (q.pc = "logItem" /\ ~left) =>
               /\ q.attempt = r.attempt
               /\ q.status \in {ADDED, ALREADY_IN, FAILED}
               /\ q.status = ADDED => m \notin member /\ member' = member \cup {m}
               /\ q.status = ALREADY_IN => m \in member /\ member' = member
               /\ q.status = FAILED => member' = member /\ faults' = faults + 1
          /\ (q.pc = "join" /\ ~left) =>
               /\ q.attempt = r.attempt + 1 /\ r.attempt < retryAttempts
               /\ member' = member
     /\ (/\ r.pc = "logItem" /\ r.attempt >= 1
         /\ r.status \in {ADDED, ALREADY_IN, FAILED} /\ q # r /\ q.pc # "killed") =>
          /\ left /\ member' = member
          /\ \/ migration_user_log' =
                  migration_user_log (+) SetToBag({LogRow(r.run, CurUser(r), r.status)})
             \/ migration_user_log' = migration_user_log /\ faults' = faults + 1

C35_JoinClassified ==
  /\ [](/\ addUserToGuild("201") = ADDED /\ addUserToGuild("204") = ALREADY_IN
        /\ addUserToGuild("429") = "rate_limited" /\ addUserToGuild("403") = FAILED)
  /\ [][\A i \in Invocations : C35_Step(i)]_vars

\* one pass logged a principal added, a later pass logged it already_in, and
\* a refused join was logged failed
C35_Witness ==
  \E e1, e2, e3 \in BagToSet(migration_user_log) :
    /\ e1.status = ADDED /\ e2.status = ALREADY_IN /\ e3.status = FAILED
    /\ e1.discord_id = e2.discord_id
    /\ <<"g1", e1.discord_id>> \in member

\* C36: for every completed run each persisted counter equals the number of
\* the run's item-log entries with the corresponding outcome (added,
\* already_in_server, skipped_manual, token_revoked, failed), and the five
\* counters sum to the number of item-log entries of the run.
C36_Entries(runId, S) ==
  LET E == {e \in BagToSet(migration_user_log) :
              e.migration_run_id = runId /\ e.status \in S}
  IN BagCardinality([e \in E |-> migration_user_log[e]])

C36_CountersMatchLog ==
  \A runId \in DOMAIN migration_runs :
    LET row == migration_runs[runId]
    IN row.status = "completed" =>
         /\ row.added_count = C36_Entries(runId, {ADDED})
         /\ row.already_in_count = C36_Entries(runId, {ALREADY_IN})
         /\ row.skipped_manual = C36_Entries(runId, {SKIPPED_MANUAL})
         /\ row.token_revoked_count = C36_Entries(runId, {TOKEN_REVOKED})
         /\ row.failed_count = C36_Entries(runId, {FAILED})
         /\ row.added_count + row.already_in_count + row.skipped_manual
              + row.token_revoked_count + row.failed_count
              = C36_Entries(runId, {ADDED, ALREADY_IN, SKIPPED_MANUAL, TOKEN_REVOKED,
                                    REFRESH_FAILED, FAILED})

\* C38: an invocation for a known target that is not interrupted (the
\* process is not killed, the store and channel calls succeed) terminates
\* with its run in status completed, whether it starts a run or resumes one,
\* whatever the refresh and join answers (rate_limited on every attempt
\* included) and also when a resume finds no candidates left: it never ends
\* by throwing.
C38_Uninterrupted(i) ==
  /\ faults = 0 /\ inv[i].epoch = crashes
  /\ inv[i].site # "precondition"
  /\ ~(inv[i].site = "nousers" /\ inv[i].existing = NULL)

C38_UninterruptedCompletes ==
  \A i \in Invocations :
    /\ (inv[i].pc = "thrown" /\ C38_Uninterrupted(i)) => FALSE
    /\ (inv[i].pc = "done" /\ C38_Uninterrupted(i)) =>
         migration_runs[inv[i].run].status = "completed"

\* C39: every call of RateLimiter.acquire() is eventually released, whenever
\* it arrives (while the loop sleeps, or right after the last release), and
\* whenever no acquire is pending the queue is empty and the processing flag
\* is false.
C39_Released == {trace.releases[k].id : k \in DOMAIN trace.releases}

C39_Acquired == {trace.acquires[k].id : k \in DOMAIN trace.acquires}

C39_NoAcquireLost ==
  /\ [](/\ {rateLimiter.queue[k] : k \in DOMAIN rateLimiter.queue}
             = C39_Acquired \ C39_Released
        /\ C39_Acquired = C39_Released =>
             /\ rateLimiter.queue = << >> /\ ~rateLimiter.processing
             /\ rateLimiter.due = NULL
        /\ C39_Acquired # C39_Released =>
             rateLimiter.processing /\ rateLimiter.due # NULL)
  /\ \A id \in 1..MaxAcquires : (id \in C39_Acquired) ~> (id \in C39_Released)

\* three calls were released: the second arrived in the millisecond of the
\* first release, after the loop had ended, and the third while the loop
\* slept for the second
C39_Witness ==
  /\ Len(trace.acquires) = 3 /\ Len(trace.releases) = 3
  /\ trace.acquires[2].at = trace.releases[1].at
  /\ trace.acquires[3].at < trace.releases[2].at
  /\ trace.releases[3].at > trace.releases[2].at
  /\ rateLimiter.queue = << >> /\ ~rateLimiter.processing

\* C34: a successful refresh rotates the stored credentials as one unit: the
\* store then holds the new access credential, the new refresh credential
\* and the new expiry together, never a mix of old and new values, and the
\* credential returned is the new access credential.
C34_Step(i) ==
  LET r == inv[i]
      q == inv'[i]
      u == CurUser(r)
  IN (r.pc = "updateTokens" /\ q # r /\ q.pc # "killed") =>
       /\ verified_users' =
            [verified_users EXCEPT ![u] =
               [@ EXCEPT !.access_token = r.token, !.refresh_token = r.token,
                         !.token_expires_at = clock + ExpiresIn * 1000]]
       /\ r.token >= 2
       /\ q.token = r.token

C34_RotationIsOneUnit ==
  /\ [](\A u \in Users :
          LET row == verified_users[u]
              rotated == row.token_expires_at = StartTime + ExpiresIn * 1000
          IN /\ (row.access_token >= 2 \/ row.refresh_token >= 2) =>
                  rotated /\ row.access_token = row.refresh_token
             /\ rotated => row.access_token = row.refresh_token
                           /\ row.access_token # 1)
  /\ [][\A i \in Invocations : C34_Step(i)]_vars

\* a refreshed principal holds the new pair and the new expiry, and the pass
\* goes to the join with the new access credential
C34_Witness ==
  \E i \in Invocations :
    /\ inv[i].pc = "join" /\ inv[i].token = 2 /\ inv[i].nRefresh = 1
    /\ verified_users[CurUser(inv[i])].access_token = 2
    /\ verified_users[CurUser(inv[i])].refresh_token = 2
    /\ verified_users[CurUser(inv[i])].token_expires_at = StartTime + ExpiresIn * 1000
    /\ inv[i].snap[CurUser(inv[i])].token_expires_at = ExpiresSoon

\* C37: in every reachable state of the principal store a principal with
\* token_revoked = true has no stored access credential and no stored
\* refresh credential, whatever the interleaving of the store's writers.
C37_RevokedHoldNoCredentials ==
  \A u \in DOMAIN verified_users :
    verified_users[u].token_revoked =>
      /\ verified_users[u].access_token = NULL
      /\ verified_users[u].refresh_token = NULL

\* ------------------------------------------------------------ the web side
\* oauth_states.expires_at DEFAULT NOW() + INTERVAL '10 minutes', in milliseconds
STATE_TTL == 600000

\* states issued by /authorize, callbacks received, jumps of the clock
MaxStates == 2
MaxCallbacks == 3
MaxTicks == 2

\* what a callback may carry as state: an issued one, one never issued, none
StateTokens == 1..(MaxStates + 1)

\* a consume that does not look at the used flag
consumeOAuthState_IgnoresUsed(os, state, now) ==
  IF state \in DOMAIN os /\ os[state].expires_at > now
  THEN [os |-> [os EXCEPT ![state].used = TRUE], rows |-> <<[os[state] EXCEPT !.used = TRUE]>>]
  ELSE [os |-> os, rows |-> << >>]

\* INSERT INTO oauth_states (state, discord_id, guild_id); the table's
\* defaults fill created_at, expires_at and used
createOAuthState(os, state, discordId, guildId, now) ==
  [s \in DOMAIN os \cup {state} |->
     IF s = state
     THEN [discord_id |-> discordId, guild_id |-> guildId, created_at |-> now,
           expires_at |-> now + STATE_TTL, used |-> FALSE]
     ELSE os[s]]

\* UPDATE oauth_states SET used = TRUE WHERE state = $1 AND used = FALSE
\* AND expires_at > NOW() RETURNING *: one statement; the caller takes
\* rows[0] || null
consumeOAuthState(os, state, now) ==
  IF state \in DOMAIN os /\ ~os[state].used /\ os[state].expires_at > now
  THEN [os |-> [os EXCEPT ![state].used = TRUE], rows |-> <<[os[state] EXCEPT !.used = TRUE]>>]
  ELSE [os |-> os, rows |-> << >>]

\* DELETE FROM oauth_states WHERE expires_at < NOW() OR used = TRUE
cleanup_expired_oauth_states(os, now) ==
  [s \in {t \in DOMAIN os : ~(os[t].expires_at < now \/ os[t].used)} |-> os[s]]

\* INSERT ... ON CONFLICT (discord_id) DO UPDATE: credentials stored,
\* manually_verified = FALSE, token_revoked = FALSE either way
upsertVerifiedUser(vu, u, access, refresh, tokenExpiresAt) ==
  [x \in DOMAIN vu \cup {u} |->
     IF x = u
     THEN [access_token |-> access, refresh_token |-> refresh,
           token_expires_at |-> tokenExpiresAt,
           manually_verified |-> FALSE, token_revoked |-> FALSE]
     ELSE vu[x]]

\* a manual verification that also lifts the revocation
manuallyVerifyUser_Unrevokes(vu, u) ==
  [x \in DOMAIN vu \cup {u} |->
     IF x # u THEN vu[x]
     ELSE IF u \in DOMAIN vu
          THEN [vu[u] EXCEPT !.manually_verified = TRUE, !.token_revoked = FALSE]
          ELSE ManualRow]

\* INSERT (discord_id, manually_verified, verified_at) VALUES ($1, TRUE, NOW())
\* ON CONFLICT (discord_id) DO UPDATE SET manually_verified = TRUE,
\* verified_at = NOW(): a new row takes the table's defaults, an existing
\* row keeps its credentials and its token_revoked
manuallyVerifyUser(vu, u) ==
  [x \in DOMAIN vu \cup {u} |->
     IF x # u THEN vu[x]
     ELSE IF u \in DOMAIN vu
          THEN [vu[u] EXCEPT !.manually_verified = TRUE]
          ELSE ManualRow]

\* SELECT * FROM verified_users WHERE discord_id = $1: the rows, of which
\* the caller takes rows[0] || null
getVerifiedUser(vu, u) == IF u \in DOMAIN vu THEN <<vu[u]>> ELSE << >>

\* SELECT 1 FROM verified_users WHERE discord_id = $1 AND token_revoked = FALSE
isUserVerified(vu, u) == u \in DOMAIN vu /\ ~vu[u].token_revoked

\* the discord ids of the rows getAllVerifiedUsers returns
\* (WHERE token_revoked = FALSE), their order left out
getAllVerifiedUserIds(vu) == {u \in DOMAIN vu : ~vu[u].token_revoked}

\* the rows a principal may have when the web side is looked at
WebRows == {OAuthRow(ExpiresLate), ManualRow, RevokedRow, ManualRevokedRow}

\* the web side starts on a store that holds the given rows
WebStart(rows) ==
  /\ \E S \in SUBSET Users : verified_users \in [S -> rows]
  /\ grant = [u \in Users |-> NULL]
  /\ envFault = {}
  /\ migration_runs = << >>
  /\ migration_user_log = EmptyBag
  /\ runHist = << >>
  /\ retryAttempts = MaxRetryAttempts
  /\ progressInterval = DefaultProgressInterval
  /\ inv = [i \in Invocations |-> IdleInv]
  /\ crashes = 0
  /\ member = {}
  /\ faults = 0
  /\ overlapped = FALSE
  /\ raced = {}
  /\ TimedIdle

WebUnchanged ==
  UNCHANGED <<migration_runs, migration_user_log, config, inv, crashes, runHist,
              envFault, member, faults, overlapped, raced,
              rateLimiter, trace, pass, retry>>

\* GET /api/oauth/authorize: generateState() gives a state not seen before,
\* createOAuthState stores it with the user_id of the request, if any
Authorize ==
  /\ web.issued < MaxStates
  /\ \E userId \in {NULL, 1} :
       web' = [web EXCEPT
                 !.oauth_states = createOAuthState(@, web.issued + 1, userId, "g1", clock),
                 !.issued = @ + 1,
                 !.created = Append(@, clock)]
  /\ UNCHANGED <<verified_users, grant, clock>>
  /\ WebUnchanged

\* GET /api/oauth/callback up to the state check: the request carries a
\* state (NULL: none, answered 400 before the table is touched);
\* consumeOAuthState decides; a null record is answered 400
Callback ==
  /\ Len(web.callbacks) < MaxCallbacks
  /\ \E state \in StateTokens \cup {NULL} :
       LET st == IF state = NULL
                 THEN [os |-> web.oauth_states, rows |-> << >>]
                 ELSE consumeOAuthState(web.oauth_states, state, clock)
           k == Len(web.callbacks) + 1
       IN web' = [web EXCEPT
                    !.oauth_states = st.os,
                    !.callbacks = Append(@, [state |-> state, at |-> clock,
                                             passed |-> st.rows # << >>,
                                             result |-> IF st.rows # << >> THEN "pending"
                                                        ELSE "400"]),
                    !.exchanging = IF st.rows # << >> THEN @ \cup {k} ELSE @]
  /\ UNCHANGED <<verified_users, grant, clock>>
  /\ WebUnchanged

\* the rest of the callback: exchangeCode and fetchUserInfo name the user who
\* authorized and hand over a new grant, upsertVerifiedUser stores it; a
\* failure of the exchange is answered 500
Exchange ==
  \E k \in web.exchanging, u \in Users, ok \in BOOLEAN :
    /\ IF ok
       THEN /\ grant' = [grant EXCEPT ![u] = @ + 1]
            /\ verified_users' = upsertVerifiedUser(verified_users, u, grant'[u], grant'[u],
                                                    clock + ExpiresIn * 1000)
       ELSE UNCHANGED <<verified_users, grant>>
    /\ web' = [web EXCEPT !.exchanging = @ \ {k},
                          !.callbacks[k].result = IF ok THEN "200" ELSE "500"]
    /\ UNCHANGED clock
    /\ WebUnchanged

\* setInterval: cleanupExpiredStates()
Cleanup ==
  /\ web' = [web EXCEPT !.oauth_states = cleanup_expired_oauth_states(@, clock)]
  /\ UNCHANGED <<verified_users, grant, clock>>
  /\ WebUnchanged

\* time passes: a millisecond, or all but a millisecond of the ten minutes
WebTick ==
  /\ web.ticks < MaxTicks
  /\ \E d \in {1, STATE_TTL - 1} : clock' = clock + d
  /\ web' = [web EXCEPT !.ticks = @ + 1]
  /\ UNCHANGED <<verified_users, grant>>
  /\ WebUnchanged

\* /verify up to its first write: a userid that is no snowflake (NULL) is
\* answered Invalid User ID; getVerifiedUser; a row that is not revoked is
\* answered Already Verified
VerifyLookup ==
  /\ web.verify.pc = "off"
  /\ \E userId \in Users \cup {NULL} :
       LET existingUser == getVerifiedUser(verified_users, userId)
       IN web' = [web EXCEPT !.verify =
                    IF userId = NULL
                    THEN [pc |-> "done", userId |-> NULL, existingUser |-> << >>,
                          reply |-> "invalid_user_id"]
                    ELSE IF existingUser # << >> /\ ~existingUser[1].token_revoked
                    THEN [pc |-> "done", userId |-> userId, existingUser |-> existingUser,
                          reply |-> "already_verified"]
                    ELSE [pc |-> "write", userId |-> userId, existingUser |-> existingUser,
                          reply |-> "none"]]
  /\ UNCHANGED <<verified_users, grant, clock>>
  /\ WebUnchanged

\* manuallyVerifyUser, the audit log, the roles (their failure is caught),
\* then the reply User Manually Verified; a failing store is answered with
\* the error reply
VerifyWrite ==
  /\ web.verify.pc = "write"
  /\ \E ok \in BOOLEAN :
       IF ok
       THEN /\ verified_users' = manuallyVerifyUser(verified_users, web.verify.userId)
            /\ web' = [web EXCEPT !.verify.pc = "done", !.verify.reply = "verified"]
       ELSE /\ UNCHANGED verified_users
            /\ web' = [web EXCEPT !.verify.pc = "done", !.verify.reply = "error"]
  /\ UNCHANGED <<grant, clock>>
  /\ WebUnchanged

\* the command is over; the next one may come
VerifyEnd ==
  /\ web.verify.pc = "done"
  /\ web' = [web EXCEPT !.verify = IdleVerify]
  /\ UNCHANGED <<verified_users, grant, clock>>
  /\ WebUnchanged

\* the OAuth flow on its own, from a store with no principal yet
InitOAuth == WebStart({})

NextOAuth ==
  \/ Authorize
  \/ Callback
  \/ Exchange
  \/ Cleanup
  \/ WebTick

SpecOAuth == InitOAuth /\ [][NextOAuth]_vars

\* /verify commands one after the other, on every kind of row
InitVerify == WebStart(WebRows)

NextVerify ==
  \/ VerifyLookup
  \/ VerifyWrite
  \/ VerifyEnd

SpecVerify == InitVerify /\ [][NextVerify]_vars

\* C31: of the callbacks that carry one state at most one passes the state
\* check, however they interleave, and a callback that passes carries a
\* state that was issued, at most ten minutes before
C31_StateSingleUse ==
  /\ \A i, j \in DOMAIN web.callbacks :
       (i # j /\ web.callbacks[i].passed /\ web.callbacks[j].passed)
         => web.callbacks[i].state # web.callbacks[j].state
  /\ \A i \in DOMAIN web.callbacks :
       web.callbacks[i].passed =>
         /\ web.callbacks[i].state \in DOMAIN web.created
         /\ web.callbacks[i].at - web.created[web.callbacks[i].state] <= STATE_TTL

\* a state passed once and refused at once after, another refused for its age
C31_Witness ==
  \E i, j, k \in DOMAIN web.callbacks :
    /\ i < j
    /\ web.callbacks[i].state = web.callbacks[j].state
    /\ web.callbacks[i].at = web.callbacks[j].at
    /\ web.callbacks[i].passed
    /\ ~web.callbacks[j].passed
    /\ ~web.callbacks[k].passed
    /\ web.callbacks[k].state \in DOMAIN web.created
    /\ web.callbacks[k].at - web.created[web.callbacks[k].state] > STATE_TTL

\* C32: when /verify has answered User Manually Verified for a user id,
\* isUserVerified holds for it and getAllVerifiedUsers returns it, whatever
\* row the user had before
C32_VerifiedAfterVerify ==
  (web.verify.pc = "done" /\ web.verify.reply = "verified") =>
    /\ isUserVerified(verified_users, web.verify.userId)
    /\ web.verify.userId \in getAllVerifiedUserIds(verified_users)

====
